---- MODULE Spec2Model ----
(***************************************************************************)
(* Shakmat: the bitboard position (shakmat-core Board), its make / unmake  *)
(* and null moves, pseudolegal / legal move generation, the incremental    *)
(* Zobrist key, and the engine's transposition table.                      *)
(*                                                                         *)
(* A BitBoard (u64) is modelled as the set of the indices of its set bits, *)
(* so & | ^ ! are set intersection, union, symmetric difference and        *)
(* complement in 0..63.  A Zobrist key is the XOR of entries of            *)
(* ZOBRIST_VALUES; the 793 random values are taken to be linearly          *)
(* independent over GF(2), so a key is modelled as the set of table        *)
(* indices that are XORed in an odd number of times.                       *)
(***************************************************************************)
EXTENDS Integers, Sequences, FiniteSets, TLC

\* Bound of the model: the deepest make/unmake stack explored.
MaxPly == 2

Squares == 0 .. 63

None == "None"
Pawn == "Pawn"
Knight == "Knight"
Bishop == "Bishop"
Rook == "Rook"
Queen == "Queen"
King == "King"
PieceTypes == {Pawn, Knight, Bishop, Rook, Queen, King}

White == "White"
Black == "Black"

\* impl Not for Color
NotColor(color) == IF color = White THEN Black ELSE White

\* Color::to_index
color_to_index(color) == IF color = Black THEN 0 ELSE 1

\* PieceType::to_index
piece_to_index(piece) ==
    CASE piece = Pawn -> 0
      [] piece = Knight -> 1
      [] piece = Bishop -> 2
      [] piece = Rook -> 3
      [] piece = Queen -> 4
      [] piece = King -> 5

\* Square::file, Square::rank, Square::from_file_rank
file(square) == 7 - (square % 8)
rank(square) == square \div 8
from_file_rank(f, r) == r * 8 + (7 - f)

-----------------------------------------------------------------------------
(* BitBoard operations *)

\* BitXorAssign
BitXor(a, b) == (a \ b) \cup (b \ a)

\* Shl<u8>: bits shifted past bit 63 are lost
Shl(bb, n) == {s + n : s \in {x \in bb : x + n <= 63}}

\* Shr<u8>: bits shifted below bit 0 are lost
Shr(bb, n) == {s - n : s \in {x \in bb : x - n >= 0}}

\* BitBoard::first_piece_index (trailing_zeros; 64 for an empty board)
first_piece_index(bb) ==
    IF bb = {} THEN 64 ELSE CHOOSE s \in bb : \A t \in bb : s <= t

-----------------------------------------------------------------------------
(* Attack tables (magic/tables.rs includes them from movetables/*.in)      *)

OnBoard(x, y) == x \in 0 .. 7 /\ y \in 0 .. 7

Step(square, dx, dy) ==
    IF OnBoard((square % 8) + dx, (square \div 8) + dy)
    THEN {(square \div 8 + dy) * 8 + (square % 8) + dx}
    ELSE {}

KingSteps == {<<1, 0>>, <<-1, 0>>, <<0, 1>>, <<0, -1>>,
              <<1, 1>>, <<1, -1>>, <<-1, 1>>, <<-1, -1>>}
KnightSteps == {<<1, 2>>, <<2, 1>>, <<-1, 2>>, <<-2, 1>>,
                <<1, -2>>, <<2, -1>>, <<-1, -2>>, <<-2, -1>>}
RookDirs == {<<1, 0>>, <<-1, 0>>, <<0, 1>>, <<0, -1>>}
BishopDirs == {<<1, 1>>, <<1, -1>>, <<-1, 1>>, <<-1, -1>>}

KING_MOVES == [s \in Squares |-> UNION {Step(s, d[1], d[2]) : d \in KingSteps}]
KNIGHT_MOVES == [s \in Squares |-> UNION {Step(s, d[1], d[2]) : d \in KnightSteps}]
WHITE_PAWN_ATTACKS == [s \in Squares |-> Step(s, 1, 1) \cup Step(s, -1, 1)]
BLACK_PAWN_ATTACKS == [s \in Squares |-> Step(s, 1, -1) \cup Step(s, -1, -1)]

\* single push, plus the double push from the initial rank
WHITE_PAWN_PUSHES ==
    [s \in Squares |-> Step(s, 0, 1) \cup (IF rank(s) = 1 THEN Step(s, 0, 2) ELSE {})]
BLACK_PAWN_PUSHES ==
    [s \in Squares |-> Step(s, 0, -1) \cup (IF rank(s) = 6 THEN Step(s, 0, -2) ELSE {})]

\* the squares from which a pawn of the side to move captures on an e.p. square
EP_ATTACKS ==
    [s \in Squares |->
        IF rank(s) = 2 THEN Step(s, 1, 1) \cup Step(s, -1, 1)
        ELSE IF rank(s) = 5 THEN Step(s, 1, -1) \cup Step(s, -1, -1)
        ELSE {}]

\* The squares of one ray from pos, nearest first
Ray(pos, d) ==
    [k \in 1 .. 7 |-> Step(pos, k * d[1], k * d[2])]

RAYS == [s \in Squares |-> [d \in RookDirs \cup BishopDirs |-> Ray(s, d)]]

\* What the magic lookup returns for one direction: every square of the ray
\* up to and including the first blocker
RayAttack(pos, blockers, d) ==
    UNION {RAYS[pos][d][k] :
             k \in {j \in 1 .. 7 : \A i \in 1 .. (j - 1) :
                                     RAYS[pos][d][i] \cap blockers = {}}}

\* magic::pawn_attacks / pawn_pushes / king_moves / knight_moves
pawn_attacks(pos, color) ==
    IF color = White THEN WHITE_PAWN_ATTACKS[pos] ELSE BLACK_PAWN_ATTACKS[pos]

pawn_pushes(pos, color) ==
    IF color = White THEN WHITE_PAWN_PUSHES[pos] ELSE BLACK_PAWN_PUSHES[pos]

king_moves(pos) == KING_MOVES[pos]

knight_moves(pos) == KNIGHT_MOVES[pos]

\* magic::bishop_moves / rook_moves / queen_moves
bishop_moves(pos, blockers) ==
    UNION {RayAttack(pos, blockers, d) : d \in BishopDirs}

rook_moves(pos, blockers) ==
    UNION {RayAttack(pos, blockers, d) : d \in RookDirs}

queen_moves(pos, blockers) ==
    bishop_moves(pos, blockers) \cup rook_moves(pos, blockers)

-----------------------------------------------------------------------------
(* Castling rights: the low 4 bits of a u8, XXXXABCD with A = white         *)
(* kingside, B = white queenside, C = black kingside, D = black queenside   *)

Bit(rights, k) == (rights \div (2 ^ k)) % 2

SetBit(rights, k, b) == rights - Bit(rights, k) * (2 ^ k) + b * (2 ^ k)

\* CastlingRights::new
CastlingRights_new(white_kingside, white_queenside, black_kingside, black_queenside) ==
    (IF white_kingside THEN 8 ELSE 0) + (IF white_queenside THEN 4 ELSE 0)
    + (IF black_kingside THEN 2 ELSE 0) + (IF black_queenside THEN 1 ELSE 0)

can_castle_kingside(rights, color) ==
    IF color = White THEN Bit(rights, 3) # 0 ELSE Bit(rights, 1) # 0

can_castle_queenside(rights, color) ==
    IF color = White THEN Bit(rights, 2) # 0 ELSE Bit(rights, 0) # 0

update_kingside(rights, color, can_castle) ==
    IF color = White THEN SetBit(rights, 3, IF can_castle THEN 1 ELSE 0)
    ELSE SetBit(rights, 1, IF can_castle THEN 1 ELSE 0)

update_queenside(rights, color, can_castle) ==
    IF color = White THEN SetBit(rights, 2, IF can_castle THEN 1 ELSE 0)
    ELSE SetBit(rights, 0, IF can_castle THEN 1 ELSE 0)

\* rights &= 0b0011 for White, rights &= 0b1100 for Black
disable_all(rights, color) ==
    IF color = White THEN rights % 4 ELSE rights - (rights % 4)

-----------------------------------------------------------------------------
(* Zobrist keys: indices into ZOBRIST_VALUES *)

N_KEYS == 793

get_key_for_piece(piece, color, square) ==
    {color_to_index(color) * 384 + piece_to_index(piece) * 64 + square}

get_key_castling(cr) == {768 + cr}

get_key_ep_square(square) == {784 + (square % 8)}

\* the single side-to-move entry, the last of the table
get_key_white_turn == {N_KEYS - 1}

-----------------------------------------------------------------------------
(* Moves *)

Normal(from, to) ==
    [kind |-> "Normal", from |-> from, to |-> to, promote_to |-> None]

PawnPromotion(from, to, promote_to) ==
    [kind |-> "PawnPromotion", from |-> from, to |-> to, promote_to |-> promote_to]

ShortCastle == [kind |-> "ShortCastle", from |-> 0, to |-> 0, promote_to |-> None]

LongCastle == [kind |-> "LongCastle", from |-> 0, to |-> 0, promote_to |-> None]

\* the caller's marker for a null move (make_null_move takes no Move)
NullMove == [kind |-> "Null", from |-> 0, to |-> 0, promote_to |-> None]

is_castle(movement) == movement.kind \in {"ShortCastle", "LongCastle"}

is_promotion(movement) == movement.kind = "PawnPromotion"

-----------------------------------------------------------------------------
(* Pieces *)

EmptyPieces ==
    [pawns |-> {}, rooks |-> {}, knights |-> {}, bishops |-> {},
     queens |-> {}, king |-> {}]

get_pieces_of_type(pieces, piece_type) ==
    CASE piece_type = Pawn -> pieces.pawns
      [] piece_type = Knight -> pieces.knights
      [] piece_type = Bishop -> pieces.bishops
      [] piece_type = Rook -> pieces.rooks
      [] piece_type = Queen -> pieces.queens
      [] piece_type = King -> pieces.king

\* an assignment through get_pieces_of_type_mut
set_pieces_of_type(pieces, piece_type, bb) ==
    CASE piece_type = Pawn -> [pieces EXCEPT !.pawns = bb]
      [] piece_type = Knight -> [pieces EXCEPT !.knights = bb]
      [] piece_type = Bishop -> [pieces EXCEPT !.bishops = bb]
      [] piece_type = Rook -> [pieces EXCEPT !.rooks = bb]
      [] piece_type = Queen -> [pieces EXCEPT !.queens = bb]
      [] piece_type = King -> [pieces EXCEPT !.king = bb]

\* remove_in_all without the rooks
remove_in_all_but_rooks(pieces, target) ==
    [pawns |-> pieces.pawns \ target, rooks |-> pieces.rooks,
     knights |-> pieces.knights \ target, bishops |-> pieces.bishops \ target,
     queens |-> pieces.queens \ target, king |-> pieces.king \ target]

remove_in_all(pieces, target) ==
    [pawns |-> pieces.pawns \ target, rooks |-> pieces.rooks \ target,
     knights |-> pieces.knights \ target, bishops |-> pieces.bishops \ target,
     queens |-> pieces.queens \ target, king |-> pieces.king \ target]

combine(pieces) ==
    pieces.pawns \cup pieces.knights \cup pieces.bishops \cup pieces.rooks
    \cup pieces.queens \cup pieces.king

-----------------------------------------------------------------------------
(* Board accessors *)

get_pieces(b, color) == IF color = White THEN b.white_pieces ELSE b.black_pieces

\* an assignment through get_pieces_mut
set_pieces(b, color, pieces) ==
    IF color = White THEN [b EXCEPT !.white_pieces = pieces]
    ELSE [b EXCEPT !.black_pieces = pieces]

get_color_bitboard(b, color) == IF color = White THEN b.all_whites ELSE b.all_blacks

\* an assignment through get_color_bitboard_mut
set_color_bitboard(b, color, bb) ==
    IF color = White THEN [b EXCEPT !.all_whites = bb]
    ELSE [b EXCEPT !.all_blacks = bb]

get_attack_bitboard(b, color) ==
    IF color = White THEN b.state.white_attacks ELSE b.state.black_attacks

ep_square(b) == b.state.en_passant_target

castling_info(b) == b.state.castling_rights

piece_on(b, square) == b.piece_on_square[square]

\* the XOR of a bitboard into one piece type of one colour
xor_pieces(b, color, piece_type, bb) ==
    set_pieces(b, color,
        set_pieces_of_type(get_pieces(b, color), piece_type,
            BitXor(get_pieces_of_type(get_pieces(b, color), piece_type), bb)))

\* the OR of a bitboard into one piece type of one colour
or_pieces(b, color, piece_type, bb) ==
    set_pieces(b, color,
        set_pieces_of_type(get_pieces(b, color), piece_type,
            get_pieces_of_type(get_pieces(b, color), piece_type) \cup bb))

\* self.state.zobrist_key ^= key
xor_key(b, key) == [b EXCEPT !.state.zobrist_key = BitXor(@, key)]

-----------------------------------------------------------------------------
(* movegen.rs *)

\* BitBoard::new(6), new(112), new(0x0600000000000000), new(0x7000000000000000)
WHITE_SHORT_CASTLE_BB == {1, 2}
WHITE_LONG_CASTLE_BB == {4, 5, 6}
BLACK_SHORT_CASTLE_BB == {57, 58}
BLACK_LONG_CASTLE_BB == {60, 61, 62}
\* BitBoard::new(14), new(56), new(0x0E00000000000000), new(0x3800000000000000)
WHITE_SHORT_CASTLE_CHECKS == {1, 2, 3}
WHITE_LONG_CASTLE_CHECKS == {3, 4, 5}
BLACK_SHORT_CASTLE_CHECKS == {57, 58, 59}
BLACK_LONG_CASTLE_CHECKS == {59, 60, 61}

\* 0x0A, 0x05, 0x28, 0x90 and the same bytes shifted to the eighth rank
WHITE_KING_SHORT_CASTLE == {1, 3}
WHITE_ROOK_SHORT_CASTLE == {0, 2}
WHITE_KING_LONG_CASTLE == {3, 5}
WHITE_ROOK_LONG_CASTLE == {4, 7}
BLACK_KING_SHORT_CASTLE == {57, 59}
BLACK_ROOK_SHORT_CASTLE == {56, 58}
BLACK_KING_LONG_CASTLE == {59, 61}
BLACK_ROOK_LONG_CASTLE == {60, 63}

\* 0x0000000000FF0000 and 0x0000FF0000000000
THIRD_RANK_MASK == 16 .. 23
SIXTH_RANK_MASK == 40 .. 47

in_promotion_rank(pos, color) ==
    IF color = Black THEN pos < 8 ELSE pos > 55

get_controlled_squares(b, color) ==
    LET our_pieces == get_pieces(b, color)
        all_pieces == b.all_pieces
    IN  UNION {king_moves(from) : from \in our_pieces.king}
        \cup UNION {knight_moves(from) : from \in our_pieces.knights}
        \cup UNION {queen_moves(from, all_pieces) : from \in our_pieces.queens}
        \cup UNION {bishop_moves(from, all_pieces) : from \in our_pieces.bishops}
        \cup UNION {rook_moves(from, all_pieces) : from \in our_pieces.rooks}
        \cup UNION {pawn_attacks(from, color) : from \in our_pieces.pawns}

\* Moves of every piece but the pawns, destinations restricted to mask
generate_normal_moves(pieces, all_pieces, mask) ==
    UNION {{Normal(from, to) : to \in queen_moves(from, all_pieces) \cap mask} :
              from \in pieces.queens}
    \cup UNION {{Normal(from, to) : to \in bishop_moves(from, all_pieces) \cap mask} :
              from \in pieces.bishops}
    \cup UNION {{Normal(from, to) : to \in rook_moves(from, all_pieces) \cap mask} :
              from \in pieces.rooks}
    \cup UNION {{Normal(from, to) : to \in knight_moves(from) \cap mask} :
              from \in pieces.knights}
    \cup UNION {{Normal(from, to) : to \in king_moves(from) \cap mask} :
              from \in pieces.king}

\* The pawn captures and pushes of one pawn (before the promotion expansion)
pawn_targets(b, color, from) ==
    LET enemy_pieces == get_color_bitboard(b, NotColor(color))
        all_pieces == b.all_pieces
        cap_bb == pawn_attacks(from, color) \cap (enemy_pieces \cup ep_square(b))
        push_bb0 == pawn_pushes(from, color) \ all_pieces
        push_bb ==
            IF color = White /\ from < 16
            THEN push_bb0 \ Shl(all_pieces \cap THIRD_RANK_MASK, 8)
            ELSE IF color = Black /\ from > 47
            THEN push_bb0 \ Shr(all_pieces \cap SIXTH_RANK_MASK, 8)
            ELSE push_bb0
    IN  cap_bb \cup push_bb

\* The promotion expansion of one pawn move
expand_promotion(from, to, color) ==
    IF in_promotion_rank(to, color)
    THEN {PawnPromotion(from, to, pt) : pt \in {Queen, Rook, Bishop, Knight}}
    ELSE {Normal(from, to)}

get_pseudolegal_moves(b, color) ==
    LET pieces == get_pieces(b, color)
        friendly_pieces_mask == Squares \ get_color_bitboard(b, color)
        all_pieces == b.all_pieces
        short_bb == IF color = White THEN WHITE_SHORT_CASTLE_BB ELSE BLACK_SHORT_CASTLE_BB
        long_bb == IF color = White THEN WHITE_LONG_CASTLE_BB ELSE BLACK_LONG_CASTLE_BB
        short_checks ==
            IF color = White THEN WHITE_SHORT_CASTLE_CHECKS ELSE BLACK_SHORT_CASTLE_CHECKS
        long_checks ==
            IF color = White THEN WHITE_LONG_CASTLE_CHECKS ELSE BLACK_LONG_CASTLE_CHECKS
        attackers == get_attack_bitboard(b, NotColor(color))
    IN  generate_normal_moves(pieces, all_pieces, friendly_pieces_mask)
        \cup (IF can_castle_kingside(castling_info(b), color)
                 /\ all_pieces \cap short_bb = {}
                 /\ attackers \cap short_checks = {}
              THEN {ShortCastle} ELSE {})
        \cup (IF can_castle_queenside(castling_info(b), color)
                 /\ all_pieces \cap long_bb = {}
                 /\ attackers \cap long_checks = {}
              THEN {LongCastle} ELSE {})
        \cup UNION {UNION {expand_promotion(from, to, color) :
                             to \in pawn_targets(b, color, from)} :
                      from \in pieces.pawns}

-----------------------------------------------------------------------------
(* chess_board.rs: queries *)

is_check(b, color) ==
    IF color = White
    THEN (b.white_pieces.king \cap b.state.black_attacks) # {}
    ELSE (b.black_pieces.king \cap b.state.white_attacks) # {}

is_draw_by_material(b) ==
    LET n_whites == Cardinality(b.all_whites)
        n_blacks == Cardinality(b.all_blacks)
    IN  ~is_check(b, b.turn)
        /\ (n_whites = 1
            \/ (n_whites = 2 /\ (Cardinality(b.white_pieces.bishops) = 1
                                 \/ Cardinality(b.white_pieces.knights) = 1)))
        /\ (n_blacks = 1
            \/ (n_blacks = 2 /\ (Cardinality(b.black_pieces.bishops) = 1
                                 \/ Cardinality(b.black_pieces.knights) = 1)))

is_draw(b) ==
    b.state.fifty_move_rule_counter >= 100 \/ is_draw_by_material(b)

only_pawns(b) ==
    Cardinality(b.all_pieces) =
        Cardinality(b.black_pieces.pawns) + Cardinality(b.white_pieces.pawns) + 2

only_pawns_or_endgame(b) ==
    Cardinality(b.all_pieces) <= 7 \/ only_pawns(b)

pseudolegal_moves(b) ==
    IF is_draw(b) THEN {} ELSE get_pseudolegal_moves(b, b.turn)

\* whether the e.p. entry of the key is on: the e.p. square is set and a pawn
\* of color_capturing stands ready to capture on it
update_ep_zobrist(b, color_capturing) ==
    ep_square(b) # {}
    /\ (EP_ATTACKS[first_piece_index(ep_square(b))]
            \cap get_pieces(b, color_capturing).pawns) # {}

\* update_attack_bitboards refreshing the white cache only
update_attack_bitboards_white_only(b) ==
    [b EXCEPT !.state.white_attacks = get_controlled_squares(b, White)]

update_attack_bitboards(b) ==
    [b EXCEPT !.state.white_attacks = get_controlled_squares(b, White),
              !.state.black_attacks = get_controlled_squares(b, Black)]

\* XORs the key of the whole position into state.zobrist_key; the piece
\* entries are pairwise distinct, so their XOR is their union
create_zobrist_key(b) ==
    LET piece_keys(x) ==
            UNION {UNION {get_key_for_piece(cp[2], cp[1], sq) :
                            sq \in get_pieces_of_type(get_pieces(x, cp[1]), cp[2])} :
                     cp \in {Black, White} \X PieceTypes}
        hash_pieces(x) == xor_key(x, piece_keys(x))
        hash_castling(x) == xor_key(x, get_key_castling(castling_info(x)))
        hash_ep(x) ==
            IF update_ep_zobrist(x, x.turn)
            THEN xor_key(x, get_key_ep_square(first_piece_index(ep_square(x))))
            ELSE x
        hash_turn(x) == IF x.turn = White THEN xor_key(x, get_key_white_turn) ELSE x
    IN  hash_turn(hash_ep(hash_castling(hash_pieces(b))))

\* Board::from_fen on a parsed FEN (FENInfo)
from_fen(fen_info) ==
    LET plies == (fen_info.fullmoves_since_start - 1) * 2
                 + (IF fen_info.turn = Black THEN 1 ELSE 0)
        all_blacks == combine(fen_info.black_pieces)
        all_whites == combine(fen_info.white_pieces)
        board ==
            [state |-> [castling_rights |-> fen_info.castling_rights,
                        en_passant_target |-> fen_info.en_passant_square,
                        fifty_move_rule_counter |-> fen_info.halfmoves_since_capture,
                        black_attacks |-> {},
                        white_attacks |-> {},
                        last_moved |-> 255,
                        zobrist_key |-> {}],
             plies |-> plies,
             all_whites |-> all_whites,
             all_blacks |-> all_blacks,
             all_pieces |-> all_blacks \cup all_whites,
             previous_moves |-> <<>>,
             turn |-> fen_info.turn,
             full_turns |-> fen_info.fullmoves_since_start,
             white_pieces |-> fen_info.white_pieces,
             black_pieces |-> fen_info.black_pieces,
             piece_on_square |-> fen_info.piece_on_square]
    IN  create_zobrist_key(update_attack_bitboards(board))

-----------------------------------------------------------------------------
(* chess_board.rs: making and unmaking moves.  A function that mutates the  *)
(* board takes the board and returns the board it leaves.                  *)

\* The rights of the colour moving only
update_castling_rights_of_mover(b, movement) ==
    LET from == movement.from
        to == movement.to
        color == b.turn
        rook_positions == IF color = White THEN <<7, 0>> ELSE <<63, 56>>
        king_or_rook_moved(r) ==
            IF piece_on(b, to) = King
            THEN disable_all(r, color)
            ELSE IF can_castle_queenside(r, color) /\ from = rook_positions[1]
            THEN update_queenside(r, color, FALSE)
            ELSE IF can_castle_kingside(r, color) /\ from = rook_positions[2]
            THEN update_kingside(r, color, FALSE)
            ELSE r
    IN  [b EXCEPT !.state.castling_rights = king_or_rook_moved(@)]

update_castling_rights(b, movement) ==
    LET white_rooks == <<7, 0>>
        black_rooks == <<63, 56>>
        from == movement.from
        to == movement.to
        color == b.turn
        op_color == NotColor(color)
        \* <<queenside, kingside>> of the colour moving [1] and of the other [2]
        rook_positions ==
            IF color = White THEN <<white_rooks, black_rooks>>
            ELSE <<black_rooks, white_rooks>>
        \* a piece landing on a rook square of the other colour
        rook_square_taken(r) ==
            IF can_castle_queenside(r, op_color) /\ to = rook_positions[2][1]
            THEN update_queenside(r, op_color, FALSE)
            ELSE IF can_castle_kingside(r, op_color) /\ to = rook_positions[2][2]
            THEN update_kingside(r, op_color, FALSE)
            ELSE r
        \* the king or a rook of the colour moving leaving its square
        king_or_rook_moved(r) ==
            IF piece_on(b, to) = King
            THEN disable_all(r, color)
            ELSE IF can_castle_queenside(r, color) /\ from = rook_positions[1][1]
            THEN update_queenside(r, color, FALSE)
            ELSE IF can_castle_kingside(r, color) /\ from = rook_positions[1][2]
            THEN update_kingside(r, color, FALSE)
            ELSE r
    IN  [b EXCEPT !.state.castling_rights =
                      king_or_rook_moved(rook_square_taken(@))]

\* the counter reset by captures only
update_fifty_move_rule_counter_captures_only(b, captured_piece, piece_moving) ==
    IF captured_piece # None
    THEN [b EXCEPT !.state.fifty_move_rule_counter = 0]
    ELSE [b EXCEPT !.state.fifty_move_rule_counter = @ + 1]

\* move_piece: the counter towards the 50 move rule
update_fifty_move_rule_counter(b, captured_piece, piece_moving) ==
    IF captured_piece # None \/ piece_moving = Pawn
    THEN [b EXCEPT !.state.fifty_move_rule_counter = 0]
    ELSE [b EXCEPT !.state.fifty_move_rule_counter = @ + 1]

\* Returns [board, undo]: the board after the single piece move and the
\* MoveUndoData it filled in
move_piece(b, movement, move_undo_data) ==
    LET from == movement.from
        to == movement.to
        from_bb == {from}
        to_bb == {to}
        moving_color == b.turn
        enemy_color == NotColor(b.turn)
        piece_moving == piece_on(b, from)
        enemy_pieces_bb == get_color_bitboard(b, enemy_color)
        is_ep == piece_moving = Pawn /\ to_bb = ep_square(b)
        is_capture == ~is_ep /\ (enemy_pieces_bb \cap to_bb) # {}
        target_ep == IF moving_color = White THEN to - 8 ELSE to + 8
        target_bb == {target_ep}
        captured_piece ==
            IF is_ep THEN Pawn ELSE IF is_capture THEN piece_on(b, to) ELSE None
        \* the pawn captured e.p. leaves the square behind the target
        capture_ep(x) ==
            xor_key(
                [set_color_bitboard(xor_pieces(x, enemy_color, Pawn, target_bb),
                                    enemy_color, BitXor(enemy_pieces_bb, target_bb))
                    EXCEPT !.all_pieces = BitXor(@, target_bb),
                           !.piece_on_square[target_ep] = None],
                get_key_for_piece(Pawn, enemy_color, target_ep))
        \* a normal capture: piece_on_square[to] is overwritten below
        capture(x) ==
            xor_key(
                set_color_bitboard(
                    set_pieces(x, enemy_color,
                               remove_in_all(get_pieces(x, enemy_color), to_bb)),
                    enemy_color, BitXor(enemy_pieces_bb, to_bb)),
                get_key_for_piece(piece_on(x, to), enemy_color, to))
        remove_captured(x) ==
            IF is_ep THEN capture_ep(x) ELSE IF is_capture THEN capture(x) ELSE x
        leave_from(x) ==
            [xor_key(x, get_key_for_piece(piece_moving, moving_color, from))
                EXCEPT !.piece_on_square[from] = None]
        move_color_bitboard(x) ==
            set_color_bitboard(x, moving_color,
                BitXor(get_color_bitboard(x, moving_color), from_bb \cup to_bb))
        move_all_pieces(x) ==
            [x EXCEPT !.all_pieces = BitXor(@, from_bb) \cup to_bb]
        arrive_at_to(x) ==
            IF is_promotion(movement)
            THEN [xor_key(
                      xor_pieces(xor_pieces(x, moving_color, Pawn, from_bb),
                                 moving_color, movement.promote_to, to_bb),
                      get_key_for_piece(movement.promote_to, moving_color, to))
                    EXCEPT !.piece_on_square[to] = movement.promote_to]
            ELSE [xor_key(
                      xor_pieces(x, moving_color, piece_moving, from_bb \cup to_bb),
                      get_key_for_piece(piece_moving, moving_color, to))
                    EXCEPT !.piece_on_square[to] = piece_moving]
        count_move(x) ==
            update_fifty_move_rule_counter(x, captured_piece, piece_moving)
        hash_castling(x) == xor_key(x, get_key_castling(castling_info(x)))
        castling_rights(x) ==
            hash_castling(update_castling_rights(hash_castling(x), movement))
        set_last_moved(x) == [x EXCEPT !.state.last_moved = to]
    IN  [board |->
            set_last_moved(castling_rights(count_move(arrive_at_to(
                move_all_pieces(move_color_bitboard(leave_from(
                    remove_captured(b)))))))),
         undo |-> [move_undo_data EXCEPT
                      !.ep = IF is_ep THEN TRUE ELSE @,
                      !.captured_piece = captured_piece]]

castle(b, movement, move_undo_data) ==
    LET color == b.turn
        short == movement.kind = "ShortCastle"
        row_start == IF color = White THEN 0 ELSE 56
        king_from == row_start + 3
        king_to == IF short THEN row_start + 1 ELSE row_start + 5
        rook_from == IF short THEN row_start ELSE row_start + 7
        rook_to == IF short THEN row_start + 2 ELSE row_start + 4
        king_move == Normal(king_from, king_to)
        rook_move == Normal(rook_from, rook_to)
        move_rook(after_king) == move_piece(after_king.board, rook_move, after_king.undo)
    IN  move_rook(move_piece(b, king_move, move_undo_data))

undo_castle(b, movement) ==
    LET color == b.turn
        short == movement.kind = "ShortCastle"
        row_start == IF color = White THEN 0 ELSE 56
        \* from and to are reversed w.r.t. castle()
        king_to == row_start + 3
        king_from == IF short THEN row_start + 1 ELSE row_start + 5
        rook_to == IF short THEN row_start ELSE row_start + 7
        rook_from == IF short THEN row_start + 2 ELSE row_start + 4
        king_mask ==
            IF color = White
            THEN (IF short THEN WHITE_KING_SHORT_CASTLE ELSE WHITE_KING_LONG_CASTLE)
            ELSE (IF short THEN BLACK_KING_SHORT_CASTLE ELSE BLACK_KING_LONG_CASTLE)
        rook_mask ==
            IF color = White
            THEN (IF short THEN WHITE_ROOK_SHORT_CASTLE ELSE WHITE_ROOK_LONG_CASTLE)
            ELSE (IF short THEN BLACK_ROOK_SHORT_CASTLE ELSE BLACK_ROOK_LONG_CASTLE)
        undo_squares(x) ==
            [x EXCEPT !.piece_on_square[king_from] = None,
                      !.piece_on_square[king_to] = King,
                      !.piece_on_square[rook_from] = None,
                      !.piece_on_square[rook_to] = Rook,
                      !.all_pieces = BitXor(@, king_mask \cup rook_mask)]
        undo_color_bitboard(x) ==
            set_color_bitboard(x, color,
                BitXor(get_color_bitboard(x, color), king_mask \cup rook_mask))
        undo_pieces(x) ==
            xor_pieces(xor_pieces(x, color, King, king_mask), color, Rook, rook_mask)
    IN  undo_pieces(undo_color_bitboard(undo_squares(b)))

\* update_en_passant hashing every e.p. square, capturable or not
update_en_passant_hash_always(b, movement) ==
    LET b0 == [b EXCEPT !.state.en_passant_target = {}]
        from == movement.from
        to == movement.to
        color == b.turn
        set_ep(square) ==
            xor_key([b0 EXCEPT !.state.en_passant_target = {square}],
                    get_key_ep_square(square))
    IN  IF movement.kind = "Normal" /\ piece_on(b0, to) = Pawn
        THEN IF color = White /\ to - from = 16
             THEN set_ep(from + 8)
             ELSE IF color = Black /\ from - to = 16
             THEN set_ep(from - 8)
             ELSE b0
        ELSE b0

update_en_passant(b, movement) ==
    LET b0 == [b EXCEPT !.state.en_passant_target = {}]
        from == movement.from
        to == movement.to
        color == b.turn
        set_ep(square, color_capturing) ==
            LET b1 == [b0 EXCEPT !.state.en_passant_target = {square}]
            IN  IF update_ep_zobrist(b1, color_capturing)
                THEN xor_key(b1, get_key_ep_square(square))
                ELSE b1
    IN  IF movement.kind = "Normal" /\ piece_on(b0, to) = Pawn
        THEN IF color = White /\ to - from = 16
             THEN set_ep(from + 8, Black)
             ELSE IF color = Black /\ from - to = 16
             THEN set_ep(from - 8, White)
             ELSE b0
        ELSE b0

make_move(b, movement) ==
    LET move_undo_data == [state |-> b.state, ep |-> FALSE, captured_piece |-> None]
        unhash_ep(x) ==
            IF update_ep_zobrist(x, x.turn)
            THEN xor_key(x, get_key_ep_square(first_piece_index(ep_square(x))))
            ELSE x
        \* castle() has counted two piece moves
        count_castle_once(c) ==
            [board |-> [c.board EXCEPT !.state.fifty_move_rule_counter = @ - 1],
             undo |-> c.undo]
        perform(x) ==
            IF is_castle(movement)
            THEN count_castle_once(castle(x, movement, move_undo_data))
            ELSE move_piece(x, movement, move_undo_data)
        flip_turn(x) == xor_key([x EXCEPT !.turn = NotColor(@)], get_key_white_turn)
        count_full_turn(x) == [x EXCEPT !.full_turns = @ + color_to_index(x.turn)]
        finish(moved) ==
            [update_attack_bitboards(count_full_turn(flip_turn(
                 update_en_passant(moved.board, movement))))
               EXCEPT !.plies = @ + 1,
                      !.previous_moves = Append(@, moved.undo)]
    IN  finish(perform(unhash_ep(b)))

\* unmake_move: the state popped off the stack, the counters rolled back
restore_state(b) ==
    LET move_undo_data == b.previous_moves[Len(b.previous_moves)]
    IN  [b EXCEPT !.previous_moves = SubSeq(@, 1, Len(@) - 1),
                  !.state = move_undo_data.state,
                  !.full_turns = @ - color_to_index(b.turn),
                  !.plies = @ - 1,
                  !.turn = NotColor(@)]

\* unmake_move: the piece goes back from the "to" to the "from" square
undo_piece_movement(b, movement) ==
    LET from == movement.from
        to == movement.to
        from_bb == {from}
        to_bb == {to}
        moving_color == b.turn
        \* read off piece_on_square, which the bitboard updates leave alone
        piece_moving == piece_on(b, to)
        piece_before == IF is_promotion(movement) THEN Pawn ELSE piece_moving
        undo_color_bitboard(x) ==
            set_color_bitboard(x, moving_color,
                BitXor(get_color_bitboard(x, moving_color), from_bb \cup to_bb))
        undo_all_pieces(x) == [x EXCEPT !.all_pieces = BitXor(@, from_bb \cup to_bb)]
        leave_to(x) ==
            xor_pieces([x EXCEPT !.piece_on_square[to] = None],
                       moving_color, piece_moving, to_bb)
        arrive_at_from(x) ==
            [xor_pieces(x, moving_color, piece_before, from_bb)
                EXCEPT !.piece_on_square[from] = piece_before]
    IN  arrive_at_from(leave_to(undo_all_pieces(undo_color_bitboard(b))))

\* unmake_move: the pawn captured e.p. goes back behind the e.p. target of
\* the restored state
restore_ep_capture(b) ==
    LET enemy_color == NotColor(b.turn)
        target_bb == IF b.turn = White THEN Shr(ep_square(b), 8)
                     ELSE Shl(ep_square(b), 8)
    IN  [or_pieces(
            set_color_bitboard(b, enemy_color,
                get_color_bitboard(b, enemy_color) \cup target_bb),
            enemy_color, Pawn, target_bb)
           EXCEPT !.all_pieces = @ \cup target_bb,
                  !.piece_on_square[first_piece_index(target_bb)] = Pawn]

\* restore_capture without the write to piece_on_square
restore_capture_bitboards_only(b, movement, captured_type) ==
    LET enemy_color == NotColor(b.turn)
        to_bb == {movement.to}
    IN  [or_pieces(
            set_color_bitboard(b, enemy_color,
                get_color_bitboard(b, enemy_color) \cup to_bb),
            enemy_color, captured_type, to_bb)
           EXCEPT !.all_pieces = @ \cup to_bb]

\* unmake_move: the captured piece goes back to the "to" square
restore_capture(b, movement, captured_type) ==
    LET enemy_color == NotColor(b.turn)
        to_bb == {movement.to}
    IN  [or_pieces(
            set_color_bitboard(b, enemy_color,
                get_color_bitboard(b, enemy_color) \cup to_bb),
            enemy_color, captured_type, to_bb)
           EXCEPT !.all_pieces = @ \cup to_bb,
                  !.piece_on_square[movement.to] = captured_type]

unmake_move(b, movement) ==
    LET move_undo_data == b.previous_moves[Len(b.previous_moves)]
        restore_captured(x) ==
            IF move_undo_data.ep THEN restore_ep_capture(x)
            ELSE IF move_undo_data.captured_piece # None
            THEN restore_capture(x, movement, move_undo_data.captured_piece)
            ELSE x
        undo_motion(x) ==
            IF is_castle(movement)
            THEN undo_castle(x, movement)
            ELSE restore_captured(undo_piece_movement(x, movement))
    IN  undo_motion(restore_state(b))

\* make_null_move leaving the e.p. target in place
make_null_move_keeps_ep(b) ==
    LET move_data == [ep |-> FALSE, captured_piece |-> None, state |-> b.state]
        push(x) == [x EXCEPT !.previous_moves = Append(@, move_data)]
        unhash_ep(x) ==
            IF update_ep_zobrist(x, x.turn)
            THEN xor_key(x, get_key_ep_square(first_piece_index(ep_square(x))))
            ELSE x
        flip_turn(x) == xor_key([x EXCEPT !.turn = NotColor(@)], get_key_white_turn)
        count(x) == [x EXCEPT !.plies = @ + 1,
                              !.full_turns = @ + color_to_index(x.turn)]
    IN  count(flip_turn(unhash_ep(push(b))))

make_null_move(b) ==
    LET move_data == [ep |-> FALSE, captured_piece |-> None, state |-> b.state]
        push(x) == [x EXCEPT !.previous_moves = Append(@, move_data)]
        unhash_ep(x) ==
            IF update_ep_zobrist(x, x.turn)
            THEN xor_key(x, get_key_ep_square(first_piece_index(ep_square(x))))
            ELSE x
        clear_ep(x) == [x EXCEPT !.state.en_passant_target = {}]
        flip_turn(x) == xor_key([x EXCEPT !.turn = NotColor(@)], get_key_white_turn)
        count(x) == [x EXCEPT !.plies = @ + 1,
                              !.full_turns = @ + color_to_index(x.turn)]
    IN  count(flip_turn(clear_ep(unhash_ep(push(b)))))

\* unmake_null_move without the full-move roll back
unmake_null_move_keeps_full_turns(b) ==
    LET move_undo_data == b.previous_moves[Len(b.previous_moves)]
    IN  [b EXCEPT !.previous_moves = SubSeq(@, 1, Len(@) - 1),
                  !.state = move_undo_data.state,
                  !.plies = @ - 1,
                  !.turn = NotColor(@)]

unmake_null_move(b) ==
    LET move_undo_data == b.previous_moves[Len(b.previous_moves)]
    IN  [b EXCEPT !.previous_moves = SubSeq(@, 1, Len(@) - 1),
                  !.state = move_undo_data.state,
                  !.full_turns = @ - color_to_index(b.turn),
                  !.plies = @ - 1,
                  !.turn = NotColor(@)]

\* the filter testing is_check for the side now to move instead of the mover
passes_legality_filter_side_to_move(b, mv) ==
    is_castle(mv) \/ ~is_check(make_move(b, mv), NotColor(b.turn))

\* The filter of legal_moves on one pseudolegal move: a castle passes
\* untested, any other move is made on the clone and tested with is_check.
\* (The clone is unmade after each test; unmake_move restoring it is what
\* MakeUnmakeRestores checks.)
passes_legality_filter(b, mv) ==
    is_castle(mv) \/ ~is_check(make_move(b, mv), b.turn)

legal_moves(b) ==
    {mv \in pseudolegal_moves(b) : passes_legality_filter(b, mv)}

-----------------------------------------------------------------------------
(* chess_board.rs, _perft: the moves are counted on the board itself, made *)
(* and unmade in turn (the serial branch), or at the root on one clone of  *)
(* the board for each move (the multithread branch).  The serial count     *)
(* returns the board it leaves together with the count.  perft.rs, _perft: *)
(* the count on boards returned by make_move, with a cache of the counts   *)
(* per key and depth, a set of <<key, depth, count>>.                      *)

RECURSIVE perft_serial(_, _)
RECURSIVE perft_serial_loop(_, _, _, _)
RECURSIVE perft_cached(_, _, _)
RECURSIVE perft_cached_loop(_, _, _, _, _)

\* A filter that tests the side now to move instead of the side that moved
perft_keeps_side_to_move(b, mv) ==
    is_castle(mv) \/ ~is_check(b, b.turn)

\* The filter of _perft on a move that has been made on b
perft_keeps(b, mv) ==
    is_castle(mv) \/ ~is_check(b, NotColor(b.turn))

\* One pass of the serial loop for each move of pseudo_moves; the board and
\* the sum of a pass are values before the next pass starts
perft_serial_loop(b, pseudo_moves, depth, sum) ==
    IF pseudo_moves = {} \/ b.plies + sum < 0 THEN [board |-> b, count |-> sum]
    ELSE LET mv == CHOOSE m \in pseudo_moves : TRUE
             below(made) ==
                 IF perft_keeps(made, mv) THEN perft_serial(made, depth - 1)
                 ELSE [board |-> made, count |-> 0]
             after(res) ==
                 perft_serial_loop(unmake_move(res.board, mv),
                                   pseudo_moves \ {mv}, depth, sum + res.count)
         IN  after(below(make_move(b, mv)))

\* _perft(depth, false)
perft_serial(b, depth) ==
    IF depth = 1 THEN [board |-> b, count |-> Cardinality(legal_moves(b))]
    ELSE perft_serial_loop(b, pseudolegal_moves(b), depth, 0)

\* The task of the multithread branch for one move: it clones the board,
\* makes the move on the clone and counts serially below it
perft_task(b, mv, depth) ==
    LET count(clone) ==
            IF perft_keeps(clone, mv)
            THEN perft_serial(clone, depth - 1).count
            ELSE 0
    IN  count(make_move(b, mv))

\* The sum of the tasks
RECURSIVE perft_tasks_sum(_, _, _)
perft_tasks_sum(b, pseudo_moves, depth) ==
    IF pseudo_moves = {} THEN 0
    ELSE LET mv == CHOOSE m \in pseudo_moves : TRUE
         IN  perft_task(b, mv, depth)
                + perft_tasks_sum(b, pseudo_moves \ {mv}, depth)

\* _perft(depth, true)
perft_multithread(b, depth) ==
    IF depth = 1 THEN Cardinality(legal_moves(b))
    ELSE perft_tasks_sum(b, pseudolegal_moves(b), depth)

\* Board::perft of chess_board.rs
perft(b, depth) == perft_multithread(b, depth)

cache_get(cache, key, depth) ==
    {e[3] : e \in {c \in cache : c[1] = key /\ c[2] = depth}}

\* One pass of the loop of perft.rs for each move of pseudo_moves; the cache
\* and the sum of a pass are values before the next pass starts
perft_cached_loop(b, pseudo_moves, depth, cache, sum) ==
    IF pseudo_moves = {} \/ Cardinality(cache) + sum < 0
    THEN [cache |-> cache, count |-> sum]
    ELSE LET mv == CHOOSE m \in pseudo_moves : TRUE
             below(new_board) ==
                 IF perft_keeps(new_board, mv)
                 THEN perft_cached(new_board, depth - 1, cache)
                 ELSE [cache |-> cache, count |-> 0]
             after(res) ==
                 perft_cached_loop(b, pseudo_moves \ {mv}, depth, res.cache,
                                   sum + res.count)
         IN  after(below(make_move(b, mv)))

\* _perft of perft.rs with the cache as it stands
perft_cached(b, depth, cache) ==
    LET key == b.state.zobrist_key
        store(res) ==
            [cache |-> res.cache \cup {<<key, depth, res.count>>},
             count |-> res.count]
    IN  IF cache_get(cache, key, depth) # {}
        THEN [cache |-> cache, count |-> (CHOOSE res \in cache_get(cache, key, depth) : TRUE)]
        ELSE IF depth = 1
        THEN [cache |-> cache, count |-> Cardinality(legal_moves(b))]
        ELSE store(perft_cached_loop(b, pseudolegal_moves(b), depth, cache, 0))

\* Board::perft of perft.rs
perft_with_new_cache(b, depth) == perft_cached(b, depth, {}).count

-----------------------------------------------------------------------------
(* fen_utils.rs: a FEN is given already split into its six fields, the     *)
(* board field as the set of <<colour, piece, file, rank>> it spells       *)
(* (file 0 = a .. 7 = h, rank 0 = first rank .. 7 = eighth rank)           *)

load_board(placement) ==
    LET of(color, piece_type) ==
            {from_file_rank(p[3], p[4]) :
                p \in {q \in placement : q[1] = color /\ q[2] = piece_type}}
        pieces(color) ==
            [pawns |-> of(color, Pawn), rooks |-> of(color, Rook),
             knights |-> of(color, Knight), bishops |-> of(color, Bishop),
             queens |-> of(color, Queen), king |-> of(color, King)]
    IN  [white_pieces |-> pieces(White),
         black_pieces |-> pieces(Black),
         piece_on_square |->
            [sq \in Squares |->
                IF \E p \in placement : from_file_rank(p[3], p[4]) = sq
                THEN (CHOOSE p \in placement : from_file_rank(p[3], p[4]) = sq)[2]
                ELSE None]]

read_fen(fen) ==
    LET loaded == load_board(fen.board)
    IN  [turn |-> fen.turn,
         castling_rights |->
            CastlingRights_new("K" \in fen.castling, "Q" \in fen.castling,
                               "k" \in fen.castling, "q" \in fen.castling),
         en_passant_square |-> {from_file_rank(e[1], e[2]) : e \in fen.ep},
         halfmoves_since_capture |-> fen.halfmoves,
         fullmoves_since_start |-> fen.fullmoves,
         black_pieces |-> loaded.black_pieces,
         white_pieces |-> loaded.white_pieces,
         piece_on_square |-> loaded.piece_on_square]

\* The board mirrored top to bottom with the colours swapped
MirrorFen(fen) ==
    [board |-> {<<NotColor(p[1]), p[2], p[3], 7 - p[4]>> : p \in fen.board},
     turn |-> NotColor(fen.turn),
     castling |-> {IF c = "K" THEN "k" ELSE IF c = "Q" THEN "q"
                   ELSE IF c = "k" THEN "K" ELSE "Q" : c \in fen.castling},
     ep |-> {<<e[1], 7 - e[2]>> : e \in fen.ep},
     halfmoves |-> fen.halfmoves,
     fullmoves |-> fen.fullmoves]

\* r3k2r/1P6/8/8/5p2/p6p/P3P2P/R3K2R w KQkq - 0 1
FenCastles ==
    [board |-> {<<White, King, 4, 0>>, <<White, Rook, 0, 0>>, <<White, Rook, 7, 0>>,
                <<White, Pawn, 0, 1>>, <<White, Pawn, 4, 1>>, <<White, Pawn, 7, 1>>,
                <<White, Pawn, 1, 6>>,
                <<Black, King, 4, 7>>, <<Black, Rook, 0, 7>>, <<Black, Rook, 7, 7>>,
                <<Black, Pawn, 0, 2>>, <<Black, Pawn, 7, 2>>, <<Black, Pawn, 5, 3>>},
     turn |-> White, castling |-> {"K", "Q", "k", "q"}, ep |-> {},
     halfmoves |-> 0, fullmoves |-> 1]

\* 8/2p5/3p4/KP5r/5p1k/8/4P1P1/1R6 b - - 1 1
FenPinnedEp ==
    [board |-> {<<White, King, 0, 4>>, <<White, Pawn, 1, 4>>, <<White, Rook, 1, 0>>,
                <<White, Pawn, 4, 1>>, <<White, Pawn, 6, 1>>,
                <<Black, King, 7, 3>>, <<Black, Rook, 7, 4>>, <<Black, Pawn, 2, 6>>,
                <<Black, Pawn, 3, 5>>, <<Black, Pawn, 5, 3>>},
     turn |-> Black, castling |-> {}, ep |-> {},
     halfmoves |-> 1, fullmoves |-> 1]

\* 7k/8/6K1/8/8/8/8/1Q6 w - - 0 40
FenQueenEnding ==
    [board |-> {<<White, King, 6, 5>>, <<White, Queen, 1, 0>>, <<Black, King, 7, 7>>},
     turn |-> White, castling |-> {}, ep |-> {},
     halfmoves |-> 0, fullmoves |-> 40]

\* 7k/8/6K1/8/8/8/8/1Q6 w - - 99 60
FenFiftyMoves ==
    [FenQueenEnding EXCEPT !.halfmoves = 99, !.fullmoves = 60]

\* r3k2r/4p3/8/8/3pP3/8/3P1P2/R3K2R b KQkq e3 0 3
FenEpSet ==
    [board |-> {<<White, King, 4, 0>>, <<White, Rook, 0, 0>>, <<White, Rook, 7, 0>>,
                <<White, Pawn, 4, 3>>, <<White, Pawn, 3, 1>>, <<White, Pawn, 5, 1>>,
                <<Black, King, 4, 7>>, <<Black, Rook, 0, 7>>, <<Black, Rook, 7, 7>>,
                <<Black, Pawn, 3, 3>>, <<Black, Pawn, 4, 6>>},
     turn |-> Black, castling |-> {"K", "Q", "k", "q"}, ep |-> {<<4, 2>>},
     halfmoves |-> 0, fullmoves |-> 3]

StartFens ==
    {FenCastles, MirrorFen(FenCastles), FenPinnedEp, FenQueenEnding,
     FenFiftyMoves, FenEpSet}

-----------------------------------------------------------------------------
(* fen_utils.rs on text.  A str is the sequence of its characters, each a   *)
(* one-character string.  A Result is the set of its Ok values: {} is an    *)
(* Err.  The reading of a text gives the six fields that read_fen above     *)
(* takes; the writing of a board gives the text.                            *)

DigitChars == <<"0", "1", "2", "3", "4", "5", "6", "7", "8", "9">>

FileChars == <<"a", "b", "c", "d", "e", "f", "g", "h">>

\* char::is_ascii_digit and char::to_digit(10)
is_ascii_digit(ch) == \E d \in 1 .. 10 : DigitChars[d] = ch

to_digit(ch) == (CHOOSE d \in 1 .. 10 : DigitChars[d] = ch) - 1

\* u16::to_string and usize::to_string: decimal digits, no leading zero
RECURSIVE to_string(_)
to_string(n) ==
    IF n < 10 THEN <<DigitChars[n + 1]>>
    ELSE to_string(n \div 10) \o <<DigitChars[(n % 10) + 1]>>

RECURSIVE parse_digits(_, _)
parse_digits(text, value) ==
    IF text = <<>> THEN {value}
    ELSE IF ~is_ascii_digit(Head(text)) THEN {}
    ELSE IF value * 10 + to_digit(Head(text)) > 65535 THEN {}
    ELSE parse_digits(Tail(text), value * 10 + to_digit(Head(text)))

\* str::parse::<u16>: an optional plus sign and then digits, one at least,
\* of a value that a u16 holds
parse(text) ==
    LET digits == IF text # <<>> /\ Head(text) = "+" THEN Tail(text) ELSE text
    IN  IF digits = <<>> THEN {} ELSE parse_digits(digits, 0)

\* str::split: the parts between the separators, the empty ones too
RECURSIVE split(_, _)
split(text, separator) ==
    IF \A i \in 1 .. Len(text) : text[i] # separator THEN <<text>>
    ELSE LET i == CHOOSE k \in 1 .. Len(text) :
                    /\ text[k] = separator
                    /\ \A j \in 1 .. (k - 1) : text[j] # separator
         IN  <<SubSeq(text, 1, i - 1)>>
                \o split(SubSeq(text, i + 1, Len(text)), separator)

\* str::split_whitespace: the parts that are not empty
split_whitespace(text) == SelectSeq(split(text, " "), LAMBDA part : part # <<>>)

\* join
RECURSIVE join(_, _)
join(parts, separator) ==
    IF parts = <<>> THEN <<>>
    ELSE IF Len(parts) = 1 THEN parts[1]
    ELSE parts[1] \o <<separator>> \o join(Tail(parts), separator)

\* PieceType::as_fen_char
as_fen_char(piece, color) ==
    CASE piece = Pawn -> IF color = White THEN "P" ELSE "p"
      [] piece = Knight -> IF color = White THEN "N" ELSE "n"
      [] piece = Bishop -> IF color = White THEN "B" ELSE "b"
      [] piece = Rook -> IF color = White THEN "R" ELSE "r"
      [] piece = Queen -> IF color = White THEN "Q" ELSE "q"
      [] piece = King -> IF color = White THEN "K" ELSE "k"

\* The files counted from the h-file
square_to_string_from_h(square) ==
    <<FileChars[(square % 8) + 1]>> \o to_string(rank(square) + 1)

\* impl Display for Square
square_to_string(square) ==
    <<FileChars[file(square) + 1]>> \o to_string(rank(square) + 1)

\* Square::from_notation: the <<file, rank>> of a text of two characters,
\* the file in either case
from_notation(pos) ==
    IF Len(pos) # 2 THEN {}
    ELSE {<<f, r>> : f \in {x \in 0 .. 7 : pos[1] \in {FileChars[x + 1],
                                   <<"A", "B", "C", "D", "E", "F", "G", "H">>[x + 1]}},
                     r \in {y \in 0 .. 7 : pos[2] = DigitChars[y + 2]}}

\* The loop of get_rank_fen from the square of index i of the rank down
RECURSIVE get_rank_fen_from(_, _, _, _, _)
get_rank_fen_from(b, r, i, res, empty) ==
    LET written == IF empty # 0 THEN res \o to_string(empty) ELSE res
        square == 8 * r + i
    IN  IF i < 0 THEN written
        ELSE IF piece_on(b, square) # None
        THEN LET color == IF square \notin get_color_bitboard(b, White)
                          THEN Black ELSE White
             IN  get_rank_fen_from(b, r, i - 1,
                     written \o <<as_fen_char(piece_on(b, square), color)>>, 0)
        ELSE get_rank_fen_from(b, r, i - 1, res, empty + 1)

get_rank_fen(b, r) == get_rank_fen_from(b, r, 7, <<>>, 0)

save_castling(rights) ==
    IF rights = 0 THEN <<"-">>
    ELSE (IF can_castle_kingside(rights, White) THEN <<"K">> ELSE <<>>)
            \o (IF can_castle_queenside(rights, White) THEN <<"Q">> ELSE <<>>)
            \o (IF can_castle_kingside(rights, Black) THEN <<"k">> ELSE <<>>)
            \o (IF can_castle_queenside(rights, Black) THEN <<"q">> ELSE <<>>)

create_fen(b) ==
    LET pos == join([k \in 1 .. 8 |-> get_rank_fen(b, 8 - k)], "/")
        turn == IF b.turn = White THEN <<"w">> ELSE <<"b">>
        castling == save_castling(castling_info(b))
        ep == IF ep_square(b) = {} THEN <<"-">>
              ELSE square_to_string(first_piece_index(ep_square(b)))
        fifty_rule == to_string(b.state.fifty_move_rule_counter)
        turn_count == to_string(b.full_turns)
    IN  join(<<pos, turn, castling, ep, fifty_rule, turn_count>>, " ")

\* The match of load_board on a character that is no digit
fen_char_piece(ch) ==
    {<<color, piece>> \in {White, Black} \X PieceTypes : as_fen_char(piece, color) = ch}

\* The loop of load_board over the characters of one row: the pieces placed
\* so far, or an Err for a piece beyond the last file or an unknown character
RECURSIVE load_row(_, _, _, _)
load_row(row_info, r, f, placed) ==
    IF row_info = <<>> THEN {placed}
    ELSE IF is_ascii_digit(Head(row_info))
    THEN load_row(Tail(row_info), r, f + to_digit(Head(row_info)), placed)
    ELSE IF f > 7 \/ fen_char_piece(Head(row_info)) = {} THEN {}
    ELSE load_row(Tail(row_info), r, f + 1,
             placed \cup {<<p[1], p[2], f, r>> : p \in fen_char_piece(Head(row_info))})

RECURSIVE load_rows(_, _, _)
load_rows(rows, row_i, placed) ==
    IF row_i >= Len(rows) THEN {placed}
    ELSE LET loaded == load_row(rows[row_i + 1], 7 - row_i, 0, placed)
         IN  IF loaded = {} THEN {}
             ELSE load_rows(rows, row_i + 1, CHOOSE row_placed \in loaded : TRUE)

\* load_board as far as the pieces that the text spells: eight rows, and a
\* king of either colour
load_board_text(board_info) ==
    LET rows == split(board_info, "/")
        loaded == IF Len(rows) # 8 THEN {} ELSE load_rows(rows, 0, {})
    IN  {placed \in loaded : /\ \E p \in placed : p[1] = White /\ p[2] = King
                             /\ \E p \in placed : p[1] = Black /\ p[2] = King}

\* load_castling as far as the letters that the text holds
load_castling(castling_text) ==
    IF \A i \in 1 .. Len(castling_text) : castling_text[i] \in {"K", "Q", "k", "q", "-"}
    THEN {{castling_text[i] : i \in 1 .. Len(castling_text)} \ {"-"}}
    ELSE {}

\* read_fen as far as the six fields
read_fen_parts(text) ==
    LET fen_parts == split_whitespace(text)
        turn == IF fen_parts[2] = <<"w">> THEN {White}
                ELSE IF fen_parts[2] = <<"b">> THEN {Black} ELSE {}
        ep == IF fen_parts[4] = <<"-">> THEN {{}}
              ELSE {{e} : e \in from_notation(fen_parts[4])}
    IN  IF Len(fen_parts) # 6 THEN {}
        ELSE {[board |-> placed, turn |-> t, castling |-> c, ep |-> e,
               halfmoves |-> h, fullmoves |-> m] :
                 placed \in load_board_text(fen_parts[1]), t \in turn,
                 c \in load_castling(fen_parts[3]), e \in ep,
                 h \in parse(fen_parts[5]), m \in parse(fen_parts[6])}

\* Board::from_fen of a text
Board_from_fen(text) == {from_fen(read_fen(fen)) : fen \in read_fen_parts(text)}

\* rnbqkbnr/pppppppp/8/8/8/8/PPPPPPPP/RNBQKBNR w KQkq - 0 1
DEFAULT_FEN ==
    <<"r", "n", "b", "q", "k", "b", "n", "r", "/", "p", "p", "p", "p", "p",
      "p", "p", "p", "/", "8", "/", "8", "/", "8", "/", "8", "/", "P", "P",
      "P", "P", "P", "P", "P", "P", "/", "R", "N", "B", "Q", "K", "B", "N",
      "R", " ", "w", " ", "K", "Q", "k", "q", " ", "-", " ", "0", " ", "1">>

\* r3k2r/1P6/8/8/5p2/p6p/P3P2P/R3K2R w KQkq - 0 1
TextCastles ==
    <<"r", "3", "k", "2", "r", "/", "1", "P", "6", "/", "8", "/", "8", "/",
      "5", "p", "2", "/", "p", "6", "p", "/", "P", "3", "P", "2", "P", "/",
      "R", "3", "K", "2", "R", " ", "w", " ", "K", "Q", "k", "q", " ", "-",
      " ", "0", " ", "1">>

\* r3k2r/4p3/8/8/3pP3/8/3P1P2/R3K2R b KQkq e3 0 3
TextEpSet ==
    <<"r", "3", "k", "2", "r", "/", "4", "p", "3", "/", "8", "/", "8", "/",
      "3", "p", "P", "3", "/", "8", "/", "3", "P", "1", "P", "2", "/", "R",
      "3", "K", "2", "R", " ", "b", " ", "K", "Q", "k", "q", " ", "e", "3",
      " ", "0", " ", "3">>

\* 7k/8/6K1/8/8/8/8/1Q6 w - - 99 60
TextFiftyMoves ==
    <<"7", "k", "/", "8", "/", "6", "K", "1", "/", "8", "/", "8", "/", "8",
      "/", "8", "/", "1", "Q", "6", " ", "w", " ", "-", " ", "-", " ", "9",
      "9", " ", "6", "0">>

\* 7k/8/6K1/8/8/8/8/1Q6 w - - 5 1
TextLateClock ==
    <<"7", "k", "/", "8", "/", "6", "K", "1", "/", "8", "/", "8", "/", "8",
      "/", "8", "/", "1", "Q", "6", " ", "w", " ", "-", " ", "-", " ", "5",
      " ", "1">>

-----------------------------------------------------------------------------
(* trasposition/entry.rs and table.rs: the table is a vector of size slots  *)
(* indexed by the key modulo size.  Keys, depths and moves are drawn from   *)
(* small sets.  An Option is the set of its values: {} is None and {x} is   *)
(* Some(x).                                                                 *)

TTSize == 2

MaxKey == 2

MaxDepth == 1

TTKeys == 0 .. MaxKey

TTDepths == 0 .. MaxDepth

NodeTypes == {"Exact", "AlphaCutoff", "BetaCutoff"}

\* The values of Option<Move> stored in the table: None, or Some(e2e4)
TTMoves == {{}, {Normal(11, 27)}}

TTEntry_new(zobrist, depth, node_type, best_move) ==
    [zobrist |-> zobrist,
     data |-> [depth |-> depth, node_type |-> node_type, best_move |-> best_move]]

\* Every bit pattern a slot can hold
TTEntries ==
    {TTEntry_new(k, d, nt, mv) :
        k \in TTKeys, d \in TTDepths, nt \in NodeTypes, mv \in TTMoves}

\* TTable::new: with_capacity followed by set_len leaves the slots
\* uninitialised, so a new table holds whatever the memory held
TTable_new == [0 .. (TTSize - 1) -> TTEntries]

\* Returns [data, tt_move]: the returned Option<TTData> and the value of the
\* caller's tt_move after the call
get_entry(table, zobrist_key, depth, tt_move) ==
    LET index == zobrist_key % TTSize
        entry == table[index]
    IN  IF entry.zobrist # zobrist_key
        THEN [data |-> {}, tt_move |-> tt_move]
        ELSE [data |-> IF entry.data.depth >= depth THEN {entry.data} ELSE {},
              tt_move |-> entry.data.best_move]

\* Returns the table after the call
write_entry(table, zobrist_key, entry) ==
    LET index == zobrist_key % TTSize
        prev_entry == table[index]
        prev_data == prev_entry.data
        new_data == entry.data
    IN  IF prev_entry.zobrist # zobrist_key
        THEN [table EXCEPT ![index] = entry]
        ELSE IF \/ new_data.depth > prev_data.depth
                \/ (new_data.node_type # prev_data.node_type
                      /\ prev_data.node_type # "Exact")
             THEN [table EXCEPT ![index] = entry]
             ELSE table

-----------------------------------------------------------------------------
(* time.rs: the time manager.  Times are u64 microseconds; the range of a  *)
(* u64 is scaled down to U64_RANGE values, so that a product or a           *)
(* difference that leaves the range of the type leaves the scaled range.   *)
(* An arithmetic result is the wrapped value together with whether it left *)
(* the range, which panics in a build with overflow checks.                *)

U64_RANGE == 134217728

OFFSET == 10000

mul_u64(a, b) == (a * b) % U64_RANGE

mul_overflows(a, b) == a * b >= U64_RANGE

sub_u64(a, b) == (a - b) % U64_RANGE

sub_overflows(a, b) == a < b

min(a, b) == IF a <= b THEN a ELSE b

max(a, b) == IF a >= b THEN a ELSE b

\* SearchOptions without max_depth; an Option is the set of its values
SearchOptions_new(total_time_remaining, moves_until_control, time_for_move) ==
    [total_time_remaining |-> total_time_remaining,
     moves_until_control |-> moves_until_control,
     time_for_move |-> time_for_move]

\* SearchOptions::default
DefaultOptions == SearchOptions_new({}, {}, {})

the(option) == CHOOSE v \in option : TRUE

unwrap_or(option, default) == IF option = {} THEN default ELSE the(option)

TimeManager(time_for_this_move, total_remaining, unlimited, hard_limit) ==
    [time_for_this_move |-> time_for_this_move,
     total_remaining |-> total_remaining,
     unlimited |-> unlimited,
     hard_limit |-> hard_limit,
     finished |-> FALSE]

\* The manager of a search that has not been created
NoTimer == TimeManager(0, 0, TRUE, FALSE)

\* TimeManager::new: what it returns when it returns, and whether it panics
\* in a build that wraps (a division by zero) or in a build with overflow
\* checks (that, or an overflow)
TimeManager_new(opts) ==
    IF opts.time_for_move # {}
    THEN LET time == the(opts.time_for_move)
             micros == mul_u64(time, 1000)
         IN  [timer |-> TimeManager(sub_u64(micros, OFFSET), 0, FALSE, TRUE),
              div_by_zero |-> FALSE,
              overflow |-> mul_overflows(time, 1000) \/ sub_overflows(micros, OFFSET)]
    ELSE IF opts.total_time_remaining = {}
    THEN [timer |-> TimeManager(0, 0, TRUE, FALSE),
          div_by_zero |-> FALSE, overflow |-> FALSE]
    ELSE LET total == the(opts.total_time_remaining)
             total_remaining == mul_u64(total, 1000)
             moves_remaining == unwrap_or(opts.moves_until_control, 40)
             per_move == IF moves_remaining = 0 THEN 0
                         ELSE total_remaining \div moves_remaining
             share == mul_u64(per_move, 4) \div 5
         IN  [timer |-> TimeManager(sub_u64(share, OFFSET), total_remaining,
                                    FALSE, FALSE),
              div_by_zero |-> moves_remaining = 0,
              overflow |-> \/ mul_overflows(total, 1000)
                           \/ mul_overflows(per_move, 4)
                           \/ sub_overflows(share, OFFSET)]

\* TimeManager::add_panic_time: the manager it leaves, and whether a product
\* left the range
add_panic_time(t) ==
    IF t.total_remaining # 0
    THEN [timer |-> [t EXCEPT !.time_for_this_move =
                        min(mul_u64(t.time_for_this_move, 13) \div 10,
                            mul_u64(t.total_remaining, 75) \div 100)],
          overflow |-> \/ mul_overflows(t.time_for_this_move, 13)
                       \/ mul_overflows(t.total_remaining, 75)]
    ELSE [timer |-> t, overflow |-> FALSE]

\* TimeManager::update with the clock reading elapsed_micros
update(t, elapsed_micros) ==
    IF ~t.unlimited
    THEN [t EXCEPT !.finished = elapsed_micros >= t.time_for_this_move]
    ELSE t

times_up(t) == t.finished

hard_limit(t) == t.hard_limit

-----------------------------------------------------------------------------
(* The state: the Board, and what its caller keeps between a make and the   *)
(* matching unmake (perft, legal_moves and the search all recurse like     *)
(* this): the move of every frame, and here also a clone of the board      *)
(* taken before each make, against which the unmake is compared.  op is   *)
(* the last operation called on the board; arg tells what kind of move    *)
(* that operation made or unmade, as its undo record describes it.         *)

Top(stack) == stack[Len(stack)]

Pop(stack) == SubSeq(stack, 1, Len(stack) - 1)

MoveClass(mv, undo) ==
    [kind |-> mv.kind, ep |-> undo.ep, captured |-> undo.captured_piece # None]

VARIABLES board, line, saved, op, arg

(* The transposition table of one search: tt is the table, tt_move the      *)
(* caller's move variable that get_entry writes through, tt_call the last   *)
(* call on the table with its arguments and what it returned, and           *)
(* tt_stored tells, slot by slot, whether write_entry has stored into it.   *)
VARIABLES tt, tt_move, tt_call, tt_stored

(* The positions a search looks back on: past_positions is the vector of    *)
(* hashes the server hands to the search and negamax pushes to and pops     *)
(* from, current_depth the distance of the node being searched from the    *)
(* root.                                                                    *)
VARIABLES past_positions, current_depth

(* The time manager of one search: options is the SearchOptions it is made *)
(* from, timer the TimeManager, clock the microseconds elapsed since its    *)
(* start, overflow_checks whether the build panics on integer overflow (a   *)
(* debug build) or wraps (a release build), and panicked whether a call has *)
(* panicked.                                                                *)
VARIABLES options, timer, clock, overflow_checks, panicked

(* The last count of moves: perft_result is empty, or holds which _perft   *)
(* was called, the depth given and the count returned.                     *)
VARIABLES perft_result

(* One call of find_best: search holds the locals of find_best and the     *)
(* node counter of the Search, frames the calls of negamax and             *)
(* quiesence_search in flight, the root first, each with its arguments,    *)
(* its locals and the point it has reached, and ret what the call that     *)
(* returned last handed to its caller, until the caller takes it;         *)
(* overflowed tells whether a score has left the range of an i16 in some   *)
(* operation of the search so far.                                         *)
VARIABLES search, frames, ret, overflowed

search_vars == <<search, frames, ret, overflowed>>

(* The heuristics of one Search: killers holds its killer moves, index by  *)
(* index, history_table its HistoryTable, and rated_moves is empty or      *)
(* holds the last call of order_moves: the board and the ply of the node,  *)
(* the move of the table and the vector returned.                          *)
VARIABLES killers, history_table, rated_moves

order_vars == <<killers, history_table, rated_moves>>

(* fen_string is empty, or holds the text that the last call of            *)
(* Board::fen returned and the board that Board::from_fen makes of it.     *)
VARIABLES fen_string

board_vars == <<board, line, saved, op, arg>>

tt_vars == <<tt, tt_move, tt_call, tt_stored>>

rep_vars == <<past_positions, current_depth>>

time_vars == <<options, timer, clock, overflow_checks, panicked>>

\* What is kept beside the board, beside the table, beside the history of
\* positions and beside the time manager
engine_vars == <<tt_vars, rep_vars, time_vars, perft_result, search_vars, order_vars,
                fen_string>>

not_tt_vars == <<board_vars, rep_vars, time_vars, perft_result, search_vars, order_vars,
                fen_string>>

not_rep_vars == <<tt_vars, time_vars, perft_result, search_vars, order_vars, fen_string>>

not_time_vars == <<board, line, saved, arg, tt_vars, rep_vars, perft_result, search_vars,
                  order_vars, fen_string>>

vars == <<board_vars, engine_vars>>

NoCall == [op |-> "new", key |-> 0, depth |-> 0, tt_move |-> {}, data |-> {}]

TTInit ==
    /\ tt \in TTable_new
    /\ tt_move = {}
    /\ tt_call = NoCall
    /\ tt_stored = [i \in 0 .. (TTSize - 1) |-> FALSE]

\* find_best has not been called
SearchIdle ==
    /\ search = [pc |-> "idle"]
    /\ frames = <<>>
    /\ ret = {}
    /\ overflowed = FALSE
    /\ killers = <<>>
    /\ history_table = <<>>
    /\ rated_moves = {}

\* Board::fen has not been called
NoFen == fen_string = {}

\* No time manager has been made
TimeIdle ==
    /\ options = DefaultOptions
    /\ timer = NoTimer
    /\ clock = 0
    /\ overflow_checks = FALSE
    /\ panicked = FALSE
    /\ perft_result = {}
    /\ SearchIdle

\* No search is running and no game is recorded
RepIdle ==
    /\ past_positions = <<>>
    /\ current_depth = 0
    /\ TimeIdle
    /\ NoFen

\* The table of a search that has not started
TTIdle ==
    /\ tt = [i \in 0 .. (TTSize - 1) |-> TTEntry_new(0, 0, "Exact", {})]
    /\ tt_move = {}
    /\ tt_call = NoCall
    /\ tt_stored = [i \in 0 .. (TTSize - 1) |-> FALSE]

Init ==
    /\ board \in {from_fen(read_fen(fen)) : fen \in StartFens}
    /\ line = <<>>
    /\ saved = <<>>
    /\ op = "from_fen"
    /\ arg = MoveClass(NullMove, [ep |-> FALSE, captured_piece |-> None])
    /\ TTIdle
    /\ RepIdle

\* The caller goes deeper only from a position it has kept: after a move
\* that is not a castle it has tested is_check for the side that moved
CanRecurse ==
    IF line = <<>> THEN TRUE
    ELSE IF Top(line).kind \in {"ShortCastle", "LongCastle", "Null"} THEN TRUE
    ELSE ~is_check(board, NotColor(board.turn))

\* The last frame is not a null move
NotAfterNull ==
    IF line = <<>> THEN TRUE ELSE Top(line).kind # "Null"

MakeMove ==
    /\ Len(line) < MaxPly
    /\ CanRecurse
    /\ \E mv \in pseudolegal_moves(board) :
         /\ board' = make_move(board, mv)
         /\ line' = Append(line, mv)
         /\ arg' = MoveClass(mv, Top(board'.previous_moves))
    /\ saved' = Append(saved, board)
    /\ op' = "make_move"
    /\ UNCHANGED engine_vars

UnmakeMove ==
    /\ line # <<>>
    /\ Top(line).kind # "Null"
    /\ board' = unmake_move(board, Top(line))
    /\ line' = Pop(line)
    /\ saved' = Pop(saved)
    /\ op' = "unmake_move"
    /\ arg' = MoveClass(Top(line), Top(board.previous_moves))
    /\ UNCHANGED engine_vars

\* The search passes only when not in check, not right after another null
\* move, and not in a pawn ending or with seven pieces or fewer
MakeNullMove ==
    /\ Len(line) < MaxPly
    /\ CanRecurse
    /\ NotAfterNull
    /\ ~is_check(board, board.turn)
    /\ ~only_pawns_or_endgame(board)
    /\ board' = make_null_move(board)
    /\ line' = Append(line, NullMove)
    /\ saved' = Append(saved, board)
    /\ op' = "make_null_move"
    /\ arg' = MoveClass(NullMove, Top(board'.previous_moves))
    /\ UNCHANGED engine_vars

UnmakeNullMove ==
    /\ line # <<>>
    /\ Top(line).kind = "Null"
    /\ board' = unmake_null_move(board)
    /\ line' = Pop(line)
    /\ saved' = Pop(saved)
    /\ op' = "unmake_null_move"
    /\ arg' = MoveClass(NullMove, Top(board.previous_moves))
    /\ UNCHANGED engine_vars

Next == MakeMove \/ UnmakeMove \/ MakeNullMove \/ UnmakeNullMove

Spec == Init /\ [][Next]_vars

-----------------------------------------------------------------------------
(* The search on its table: a node probes the table with its key and the   *)
(* depth it has left, and stores its result under its own key when done    *)

InitTT ==
    /\ board = from_fen(read_fen(FenQueenEnding))
    /\ line = <<>>
    /\ saved = <<>>
    /\ op = "from_fen"
    /\ arg = MoveClass(NullMove, [ep |-> FALSE, captured_piece |-> None])
    /\ TTInit
    /\ RepIdle

GetEntry ==
    /\ \E zobrist_key \in TTKeys, depth \in TTDepths :
         LET r == get_entry(tt, zobrist_key, depth, tt_move)
         IN  /\ tt_move' = r.tt_move
             /\ tt_call' = [op |-> "get_entry", key |-> zobrist_key,
                            depth |-> depth, tt_move |-> tt_move,
                            data |-> r.data]
    /\ UNCHANGED <<tt, tt_stored, not_tt_vars>>

WriteEntry ==
    /\ \E zobrist_key \in TTKeys, depth \in TTDepths,
          node_type \in NodeTypes, best_move \in TTMoves :
         LET entry == TTEntry_new(zobrist_key, depth, node_type, best_move)
             index == zobrist_key % TTSize
         IN  /\ tt' = write_entry(tt, zobrist_key, entry)
             /\ tt_stored' = [tt_stored EXCEPT
                                 ![index] = IF tt' # tt THEN TRUE ELSE @]
             /\ tt_call' = [op |-> "write_entry", key |-> zobrist_key,
                            depth |-> depth, tt_move |-> tt_move,
                            data |-> {entry.data}]
    /\ UNCHANGED <<tt_move, not_tt_vars>>

NextTT == GetEntry \/ WriteEntry

SpecTT == InitTT /\ [][NextTT]_vars

-----------------------------------------------------------------------------
(* searching.rs, is_draw_by_repetition, and its callers: the server, which *)
(* records the hash of the first position of a game and of the position    *)
(* after every move played, and negamax, which pushes the hash of its node *)
(* before searching a move and pops it afterwards.                         *)

MaxPlayed == 4

MaxSearchPly == 5

sub_u16(a, b) == (a - b) % 65536

\* The for loop over prev_states from the entry of 0-based index ply
\* downwards, two entries at a time, as far as the entry of index first
RECURSIVE count_repetitions(_, _, _, _, _, _)
count_repetitions(history, current_zobrist, last_played_ply, first, ply, rep_count) ==
    IF ply < first THEN FALSE
    ELSE IF history[ply + 1] = current_zobrist
         THEN IF ((rep_count + 1 = 2 /\ ply > last_played_ply)
                     \/ rep_count + 1 = 3)
              THEN TRUE
              ELSE count_repetitions(history, current_zobrist, last_played_ply,
                                     first, ply - 2, rep_count + 1)
         ELSE count_repetitions(history, current_zobrist, last_played_ply,
                                first, ply - 2, rep_count)

\* enumerate, skip(last_irr_move), rev, step_by(2), skip(1): the entries of
\* index Len - 3, Len - 5, ... not below last_irr_move
is_draw_by_repetition(b, cur_depth, history) ==
    LET current_zobrist == b.state.zobrist_key
        last_irr_move == sub_u16(b.plies, b.state.fifty_move_rule_counter)
        last_played_ply == sub_u16(b.plies, cur_depth)
    IN  count_repetitions(history, current_zobrist, last_played_ply,
                          last_irr_move, Len(history) - 3, 1)

\* r3k2r/1P6/8/8/5p2/p6p/P3P2P/R3K2R w - - 0 1
FenShuffle ==
    [FenCastles EXCEPT !.castling = {}]

\* The moves tried: those of the rooks between a1, b1, c1 and a8, b8
RepSquares ==
    {from_file_rank(0, 0), from_file_rank(1, 0), from_file_rank(2, 0),
     from_file_rank(0, 7), from_file_rank(1, 7)}

RepMoves(b) ==
    {mv \in pseudolegal_moves(b) :
        mv.kind = "Normal" /\ mv.from \in RepSquares /\ mv.to \in RepSquares}

\* GameData::from_fen
InitRep ==
    /\ board = from_fen(read_fen(FenShuffle))
    /\ past_positions = <<board.state.zobrist_key>>
    /\ current_depth = 0
    /\ line = <<>>
    /\ saved = <<>>
    /\ op = "from_fen"
    /\ arg = MoveClass(NullMove, [ep |-> FALSE, captured_piece |-> None])
    /\ TTIdle
    /\ TimeIdle
    /\ NoFen

\* ServerState::make_move, between two searches
PlayMove ==
    /\ current_depth = 0
    /\ Len(past_positions) <= MaxPlayed
    /\ \E mv \in RepMoves(board) :
         /\ passes_legality_filter(board, mv)
         /\ board' = make_move(board, mv)
         /\ arg' = MoveClass(mv, Top(board'.previous_moves))
    /\ past_positions' = Append(past_positions, board'.state.zobrist_key)
    /\ op' = "play"
    /\ UNCHANGED <<line, saved, current_depth, not_rep_vars>>

\* negamax on a node it has not found to be a draw: one pass of the loop
\* over the moves as far as the recursive call
SearchMove ==
    /\ current_depth < MaxSearchPly
    /\ ~is_draw_by_repetition(board, current_depth, past_positions)
    /\ \E mv \in RepMoves(board) :
         /\ passes_legality_filter(board, mv)
         /\ board' = make_move(board, mv)
         /\ line' = Append(line, mv)
         /\ arg' = MoveClass(mv, Top(board'.previous_moves))
    /\ past_positions' = Append(past_positions, board.state.zobrist_key)
    /\ saved' = Append(saved, board)
    /\ current_depth' = current_depth + 1
    /\ op' = "negamax"
    /\ UNCHANGED not_rep_vars

\* negamax trying a null move: the recursive call is made without a push
SearchNullMove ==
    /\ current_depth < MaxSearchPly
    /\ ~is_draw_by_repetition(board, current_depth, past_positions)
    /\ NotAfterNull
    /\ ~is_check(board, board.turn)
    /\ ~only_pawns_or_endgame(board)
    /\ board' = make_null_move(board)
    /\ line' = Append(line, NullMove)
    /\ arg' = MoveClass(NullMove, Top(board'.previous_moves))
    /\ saved' = Append(saved, board)
    /\ current_depth' = current_depth + 1
    /\ op' = "negamax"
    /\ UNCHANGED <<past_positions, not_rep_vars>>

\* The recursive call returns to the node that made it, which goes on with
\* the board it holds and pops what it pushed
SearchReturn ==
    /\ current_depth > 0
    /\ board' = Top(saved)
    /\ saved' = Pop(saved)
    /\ line' = Pop(line)
    /\ past_positions' = IF Top(line).kind = "Null" THEN past_positions
                         ELSE Pop(past_positions)
    /\ current_depth' = current_depth - 1
    /\ op' = "return"
    /\ UNCHANGED <<arg, not_rep_vars>>

NextRep == PlayMove \/ SearchMove \/ SearchNullMove \/ SearchReturn

SpecRep == InitRep /\ [][NextRep]_vars

-----------------------------------------------------------------------------
(* The time manager on its own: made from the options of a request, then   *)
(* updated, read and extended while the clock runs                         *)

\* Milliseconds given for the move, milliseconds left on the clock, moves
\* until the time control
MoveTimes == {{}, {5}, {10}, {12}, {1000}, {140000}}

TotalTimes == {{}, {0}, {400}, {1000}}

MovesUntilControl == {{}, {0}, {1}, {40}}

TimeOptions ==
    {SearchOptions_new(total, moves, time) :
        total \in TotalTimes, moves \in MovesUntilControl, time \in MoveTimes}

\* What elapsed_micros can read
ClockReadings == {0, 1000, 2000, 10000, 800000}

InitTime ==
    /\ board = from_fen(read_fen(FenQueenEnding))
    /\ line = <<>>
    /\ saved = <<>>
    /\ op = "options"
    /\ arg = MoveClass(NullMove, [ep |-> FALSE, captured_piece |-> None])
    /\ TTIdle
    /\ past_positions = <<>>
    /\ current_depth = 0
    /\ options \in TimeOptions
    /\ timer = NoTimer
    /\ clock = 0
    /\ overflow_checks \in BOOLEAN
    /\ panicked = FALSE
    /\ perft_result = {}
    /\ SearchIdle
    /\ NoFen

TimeRunning == op # "options" /\ ~panicked

TimeNew ==
    /\ op = "options"
    /\ LET r == TimeManager_new(options)
       IN  /\ panicked' = (r.div_by_zero \/ (overflow_checks /\ r.overflow))
           /\ timer' = IF panicked' THEN timer ELSE r.timer
    /\ op' = "new"
    /\ UNCHANGED <<not_time_vars, options, clock, overflow_checks>>

\* Time passes between two calls
Elapse ==
    /\ TimeRunning
    /\ \E reading \in ClockReadings :
         /\ reading > clock
         /\ clock' = reading
    /\ op' = "elapse"
    /\ UNCHANGED <<not_time_vars, options, timer, overflow_checks, panicked>>

TimeUpdate ==
    /\ TimeRunning
    /\ timer' = update(timer, clock)
    /\ op' = "update"
    /\ UNCHANGED <<not_time_vars, options, clock, overflow_checks, panicked>>

AddPanicTime ==
    /\ TimeRunning
    /\ LET r == add_panic_time(timer)
       IN  /\ panicked' = (overflow_checks /\ r.overflow)
           /\ timer' = IF panicked' THEN timer ELSE r.timer
    /\ op' = "add_panic_time"
    /\ UNCHANGED <<not_time_vars, options, clock, overflow_checks>>

NextTime == TimeNew \/ Elapse \/ TimeUpdate \/ AddPanicTime

SpecTime == InitTime /\ [][NextTime]_vars

-----------------------------------------------------------------------------
(* The counts of moves asked of a board: by Board::perft of chess_board.rs, *)
(* by its serial _perft, and by Board::perft of perft.rs                   *)

MaxPerftDepth == 2

\* 4k3/p7/8/8/8/8/7P/4K2R w K - 0 1
FenShortCastle ==
    [board |-> {<<White, King, 4, 0>>, <<White, Rook, 7, 0>>, <<White, Pawn, 7, 1>>,
                <<Black, King, 4, 7>>, <<Black, Pawn, 0, 6>>},
     turn |-> White, castling |-> {"K"}, ep |-> {},
     halfmoves |-> 0, fullmoves |-> 1]

\* 4k3/8/8/8/3pP3/8/8/4K3 b - e3 0 1
FenEpPair ==
    [board |-> {<<White, King, 4, 0>>, <<White, Pawn, 4, 3>>,
                <<Black, King, 4, 7>>, <<Black, Pawn, 3, 3>>},
     turn |-> Black, castling |-> {}, ep |-> {<<4, 2>>},
     halfmoves |-> 0, fullmoves |-> 1]

\* The positions counted, some of them mirrored, with the other side to
\* move, or nearer to the fifty moves
PerftFens ==
    {FenShortCastle, MirrorFen(FenShortCastle), FenEpPair, MirrorFen(FenEpPair),
     FenPinnedEp, MirrorFen(FenPinnedEp), [FenPinnedEp EXCEPT !.turn = White],
     [FenPinnedEp EXCEPT !.halfmoves = 98],
     FenQueenEnding, MirrorFen(FenQueenEnding),
     [FenQueenEnding EXCEPT !.turn = Black],
     MirrorFen([FenQueenEnding EXCEPT !.turn = Black]),
     FenFiftyMoves, MirrorFen(FenFiftyMoves),
     [FenFiftyMoves EXCEPT !.halfmoves = 97],
     [FenFiftyMoves EXCEPT !.halfmoves = 98],
     [FenFiftyMoves EXCEPT !.halfmoves = 98, !.turn = Black],
     [FenFiftyMoves EXCEPT !.halfmoves = 97, !.turn = Black]}

InitPerft ==
    /\ board \in {from_fen(read_fen(fen)) : fen \in PerftFens}
    /\ line = <<>>
    /\ saved = <<>>
    /\ op = "from_fen"
    /\ arg = MoveClass(NullMove, [ep |-> FALSE, captured_piece |-> None])
    /\ TTIdle
    /\ RepIdle

\* Each board is counted once
PerftResult(called, depth, count) ==
    [called |-> called, depth |-> depth, count |-> count]

\* Board::perft of chess_board.rs; saved keeps a clone of the board taken
\* before the call
Perft ==
    /\ perft_result = {}
    /\ \E depth \in 1 .. MaxPerftDepth :
         perft_result' = {PerftResult("perft", depth, perft(board, depth))}
    /\ saved' = <<board>>
    /\ op' = "perft"
    /\ UNCHANGED <<board, line, arg, tt_vars, rep_vars, time_vars, search_vars,
                 order_vars, fen_string>>

\* _perft(depth, false) of chess_board.rs
PerftSerial ==
    /\ perft_result = {}
    /\ \E depth \in 1 .. MaxPerftDepth :
         LET res == perft_serial(board, depth)
         IN  /\ perft_result' = {PerftResult("_perft", depth, res.count)}
             /\ board' = res.board
    /\ saved' = <<board>>
    /\ op' = "perft"
    /\ UNCHANGED <<line, arg, tt_vars, rep_vars, time_vars, search_vars,
                 order_vars, fen_string>>

\* Board::perft of perft.rs
PerftCached ==
    /\ perft_result = {}
    /\ \E depth \in 1 .. MaxPerftDepth :
         perft_result' =
            {PerftResult("perft_cached", depth, perft_with_new_cache(board, depth))}
    /\ saved' = <<board>>
    /\ op' = "perft"
    /\ UNCHANGED <<board, line, arg, tt_vars, rep_vars, time_vars, search_vars,
                 order_vars, fen_string>>

NextPerft == Perft \/ PerftSerial \/ PerftCached

SpecPerft == InitPerft /\ [][NextPerft]_vars

-----------------------------------------------------------------------------
(* evaluate.rs, Evaluation: an i16 score.  A sum, a difference or a         *)
(* negation is the wrapped value; whether it left the range of an i16,     *)
(* which panics in a build with overflow checks, is told beside it.        *)

I16_MIN == -32768

I16_MAX == 32767

CONTEMPT == 0

wrap_i16(x) == ((x - I16_MIN) % 65536) + I16_MIN

overflows_i16(x) == x < I16_MIN \/ x > I16_MAX

min_val == I16_MIN + 1

max_val == I16_MAX

contempt == CONTEMPT

is_positive_mate(score) == score >= max_val - 100

is_negative_mate(score) == score <= min_val + 100

is_mate(score) == is_negative_mate(score) \/ is_positive_mate(score)

-----------------------------------------------------------------------------
(* pv_line.rs: a PVLine is the sequence of its moves.  update_line clears  *)
(* the line and then assigns to its element of index 0, which panics when  *)
(* the index is not below the length of the vector.                        *)

PVLine_new == <<>>

first(moves) == IF moves = <<>> THEN {} ELSE {moves[1]}

update_line(moves, mv, child_line) ==
    LET cleared == <<>>
    IN  IF 0 < Len(cleared)
        THEN [panic |-> FALSE,
              moves |-> <<mv>> \o SubSeq(cleared, 2, Len(cleared)) \o child_line,
              child_line |-> <<>>]
        ELSE [panic |-> TRUE, moves |-> cleared, child_line |-> child_line]

-----------------------------------------------------------------------------
(* time.rs, remaining_micros: it updates the manager before it answers     *)

remaining_micros(t, elapsed_micros) ==
    LET updated == update(t, elapsed_micros)
    IN  [timer |-> updated,
         micros |-> IF times_up(updated) THEN 0
                    ELSE IF updated.unlimited THEN U64_RANGE - 1
                    ELSE sub_u64(updated.time_for_this_move, elapsed_micros)]

-----------------------------------------------------------------------------
(* movement.rs and movegen.rs: what the search asks about a move           *)

is_capture(mv, b) ==
    IF mv.kind = "Normal"
    THEN mv.to \in (b.all_pieces \cup ep_square(b))
    ELSE IF mv.kind = "PawnPromotion"
    THEN mv.to \in b.all_pieces
    ELSE FALSE

piece_moving(mv, b) ==
    IF mv.kind = "Normal" THEN piece_on(b, mv.from)
    ELSE IF mv.kind = "PawnPromotion" THEN Pawn
    ELSE King

\* The captures of every piece, and the captures and the pushes to the
\* promotion rank of the pawns
get_pseudolegal_caps_proms(b) ==
    LET color == b.turn
        pieces == get_pieces(b, color)
        enemy_pieces == get_color_bitboard(b, NotColor(color))
        all_pieces == b.all_pieces
        cap_bb(from) == pawn_attacks(from, color) \cap (enemy_pieces \cup ep_square(b))
        push_bb(from) ==
            {to \in pawn_pushes(from, color) \ all_pieces : in_promotion_rank(to, color)}
    IN  generate_normal_moves(pieces, all_pieces, enemy_pieces)
        \cup UNION {UNION {expand_promotion(from, to, color) :
                             to \in cap_bb(from) \cup push_bb(from)} :
                      from \in pieces.pawns}

pseudolegal_caps(b) ==
    IF is_draw(b) THEN {} ELSE get_pseudolegal_caps_proms(b)

-----------------------------------------------------------------------------
(* move_ordering.rs and history.rs.  A MoveScore is an i32; its greatest    *)
(* value is scaled down to MoveScore_MAX, which leaves the bands of the    *)
(* file as they are and brings the values of the history within reach of   *)
(* their ceiling.  The history table is held by its cells that are not 0:  *)
(* a function from <<colour index, from, to>> to the value of the cell.    *)

MoveScore_MAX == 1007

TT_MOVE == MoveScore_MAX

LAST_RECAPTURE == MoveScore_MAX - 1

CAPTURE_BASE_VAL == MoveScore_MAX - 1000

PRIMARY_KILLER == CAPTURE_BASE_VAL - 1

SECONDARY_KILLER == PRIMARY_KILLER - 1

MAX_HISTORY_VAL == SECONDARY_KILLER - 1

Move_empty == Normal(0, 0)

last_moved(b) == b.state.last_moved

piece_captured(mv, b) ==
    IF mv.kind \in {"Normal", "PawnPromotion"} THEN piece_on(b, mv.to) ELSE None

value_of_attacker(piece) ==
    CASE piece = Pawn -> 10
      [] piece = Knight -> 30
      [] piece = Bishop -> 30
      [] piece = Rook -> 50
      [] piece = Queen -> 90
      [] piece = King -> 99

value_of_capture(piece) ==
    CASE piece = Pawn -> 100
      [] piece = Knight -> 300
      [] piece = Bishop -> 300
      [] piece = Rook -> 500
      [] piece = Queen -> 900
      [] piece = King -> 9999

HistoryTable_new == <<>>

get_from_to(mv, color) ==
    CASE mv.kind = "ShortCastle" /\ color = White -> <<3, 1>>
      [] mv.kind = "LongCastle" /\ color = White -> <<3, 5>>
      [] mv.kind = "ShortCastle" /\ color = Black -> <<59, 57>>
      [] mv.kind = "LongCastle" /\ color = Black -> <<59, 61>>
      [] OTHER -> <<mv.from, mv.to>>

\* The cell of the move in data[color][from][to]
cell_of(mv, color) ==
    <<color_to_index(color), get_from_to(mv, color)[1], get_from_to(mv, color)[2]>>

cell_value(data, cell) == IF cell \in DOMAIN data THEN data[cell] ELSE 0

get_value(data, mv, color) == cell_value(data, cell_of(mv, color))

\* The table with value in the cell
with_cell(data, cell, value) ==
    LET cells == (DOMAIN data \ {cell}) \cup (IF value = 0 THEN {} ELSE {cell})
    IN  [c \in cells |-> IF c = cell THEN value ELSE data[c]]

\* The division of an i32 by 2, which rounds towards 0
half(val) == IF val >= 0 THEN val \div 2 ELSE -((-val) \div 2)

age(data) ==
    [c \in {d \in DOMAIN data : half(data[d]) # 0} |-> half(data[c])]

add_bonus(data, mv, color, bonus) ==
    LET newval == get_value(data, mv, color) + bonus
        stored == with_cell(data, cell_of(mv, color), newval)
    IN  IF newval > MAX_HISTORY_VAL THEN age(stored) ELSE stored

\* rate_move, before the negation
move_priority(mv, pv_move, b, killers_of_ply, data) ==
    IF pv_move = {mv} THEN TT_MOVE
    ELSE IF mv.kind \in {"Normal", "PawnPromotion"} /\ mv.to = last_moved(b)
    THEN LAST_RECAPTURE
    ELSE IF piece_captured(mv, b) # None
    THEN CAPTURE_BASE_VAL + value_of_capture(piece_captured(mv, b))
                          - value_of_attacker(piece_moving(mv, b))
    ELSE IF killers_of_ply[1] = mv THEN PRIMARY_KILLER
    ELSE IF killers_of_ply[2] = mv THEN SECONDARY_KILLER
    ELSE get_value(data, mv, b.turn)

rate_move(mv, pv_move, b, killers_of_ply, data) ==
    [mv |-> mv, score |-> -move_priority(mv, pv_move, b, killers_of_ply, data)]

\* sort_unstable_by_key does not say in which order it leaves the moves of
\* equal score: tie_break is +1 or -1, for the order of the squares or its
\* reverse among them
move_code(mv) ==
    CASE mv.kind = "ShortCastle" -> 0
      [] mv.kind = "LongCastle" -> 1
      [] OTHER -> 2 + (mv.from * 64 + mv.to) * 8
                    + (IF mv.promote_to = None THEN 0
                       ELSE 1 + piece_to_index(mv.promote_to))

sort_key(rm, tie_break) == rm.score * 100000 + tie_break * move_code(rm.mv)

RECURSIVE sorted_by_key(_, _)
sorted_by_key(rated, tie_break) ==
    IF rated = {} THEN <<>>
    ELSE LET least == CHOOSE rm \in rated :
                         \A other \in rated :
                            sort_key(rm, tie_break) <= sort_key(other, tie_break)
         IN  <<least>> \o sorted_by_key(rated \ {least}, tie_break)

order_moves(moves, b, pv_move, killers_of_ply, data, tie_break) ==
    sorted_by_key({rate_move(mv, pv_move, b, killers_of_ply, data) : mv \in moves},
                  tie_break)

LIMIT_DEPTH == 100

(* searching.rs, the killers of the Search: two moves for each of the      *)
(* LIMIT_DEPTH + 2 indices, the index counted from 0.  The array is held   *)
(* by its entries that are not two empty moves.                            *)

Killers_new == <<>>

killers_at(all_killers, i) ==
    IF i \in DOMAIN all_killers THEN all_killers[i] ELSE <<Move_empty, Move_empty>>

is_killer(all_killers, mv, depth) ==
    killers_at(all_killers, depth)[1] = mv \/ killers_at(all_killers, depth)[2] = mv

RECURSIVE penalised(_, _, _, _)
penalised(data, quiet_moves, color, bonus) ==
    IF quiet_moves = {} THEN data
    ELSE LET mv == CHOOSE m \in quiet_moves : TRUE
         IN  penalised(add_bonus(data, mv, color, -bonus), quiet_moves \ {mv},
                       color, bonus)

\* update_histories: what it leaves of the killers and of the history.  An
\* index past the end of the killers panics.
update_histories(all_killers, data, best_move, quiet_moves, b, depth) ==
    IF is_capture(best_move, b)
    THEN [killers |-> all_killers, history |-> data, panic |-> FALSE]
    ELSE IF depth >= LIMIT_DEPTH + 2
    THEN [killers |-> all_killers,
          history |-> add_bonus(data, best_move, b.turn, depth * depth),
          panic |-> TRUE]
    ELSE LET bonus == depth * depth
             of_depth == killers_at(all_killers, depth)
             stored == IF best_move # of_depth[1]
                       THEN [i \in DOMAIN all_killers \cup {depth} |->
                               IF i = depth THEN <<best_move, of_depth[1]>>
                               ELSE all_killers[i]]
                       ELSE all_killers
         IN  [killers |-> stored,
              history |-> penalised(add_bonus(data, best_move, b.turn, bonus),
                                    quiet_moves, b.turn, bonus),
              panic |-> FALSE]

-----------------------------------------------------------------------------
(* searching.rs: the search.  The constants of the file; the poll of the   *)
(* clock every 4096 nodes is scaled down to every UpdateEvery nodes, and   *)
(* the deepest search asked for to MaxSearchDepth.                         *)

NULL_MOVE_REDUCTION == 2

ASP_WINDOW == 30

PANIC_DROP == 30

LMR_MOVES == 1

REV_FUTILITY_MARGIN == 80

FUTILIY_MARGINS == <<0, 100, 160, 220, 280, 340>>

UpdateEvery == 2

MaxSearchDepth == 2

\* evaluate_position is known by its interface only: a score of the
\* position for the side to move
StaticScores == {-200, 200}

\* What get_entry can answer for a key and a depth: nothing, or the data of
\* an entry, of which the search reads the node type and the score.  The
\* table is read as a table of arbitrary content, which it is when it has
\* just been allocated.
SearchNodeTypes == {"Exact", "Lowerbound", "Upperbound"}

TTScores == {-40, 40}

ProbeResults ==
    {{}} \cup {{[node_type |-> nt, eval_score |-> sc]} : nt \in SearchNodeTypes, sc \in TTScores}

\* A call of negamax that has just been made
NegamaxFrame(b, depth_remaining, cur_depth, alpha, beta, can_null, pv_line) ==
    [kind |-> "negamax", pc |-> "enter", board |-> b,
     depth_remaining |-> depth_remaining, current_depth |-> cur_depth,
     alpha |-> alpha, beta |-> beta, can_null |-> can_null, pv_line |-> pv_line,
     negamax_node |-> TRUE,
     is_check |-> FALSE, is_pv |-> FALSE, do_futility |-> FALSE,
     next_pv_line |-> PVLine_new,
     best_score |-> min_val, best_move |-> {}, node_type |-> "Upperbound",
     rated_moves |-> {}, analyzed_moves |-> 0, analyzed_quiets |-> {},
     mv |-> {}, next_board |-> {}, is_capture |-> FALSE, do_full_depth |-> TRUE]

\* A call of quiesence_search that has just been made; negamax_node tells
\* whether negamax called it on its own node, to return what it returns
QuiescenceFrame(b, cur_depth, alpha, beta, pv_line, negamax_node) ==
    [kind |-> "quiescence", pc |-> "enter", board |-> b,
     current_depth |-> cur_depth, alpha |-> alpha, beta |-> beta,
     pv_line |-> pv_line, negamax_node |-> negamax_node,
     next_pv_line |-> PVLine_new, rated_moves |-> {}, mv |-> {}]

\* What a step of a call comes to: the call returns a value (via tells by
\* which return), or it goes on as frame, after calling child if there is
\* one; overflow tells whether a score left the range of an i16 on the way,
\* panic whether the step panicked for another reason
Returns(f, value, via, overflow) ==
    [kind |-> "return", frame |-> f, value |-> value, via |-> via, child |-> {},
     overflow |-> overflow, panic |-> FALSE]

GoesOn(f, overflow) ==
    [kind |-> "goes_on", frame |-> f, value |-> 0, via |-> "", child |-> {},
     overflow |-> overflow, panic |-> FALSE]

Calls(f, child, overflow) ==
    [kind |-> "call", frame |-> f, value |-> 0, via |-> "", child |-> {child},
     overflow |-> overflow, panic |-> FALSE]

Panics(f) ==
    [kind |-> "panic", frame |-> f, value |-> 0, via |-> "", child |-> {},
     overflow |-> FALSE, panic |-> TRUE]

\* negamax, lines 308-330: the futility test and the start of the loop
\* over the moves
negamax_futility(f, eval, overflow) ==
    LET considered == /\ f.depth_remaining < Len(FUTILIY_MARGINS)
                      /\ ~f.is_pv /\ ~f.is_check /\ ~is_mate(f.alpha)
        sum == eval + FUTILIY_MARGINS[f.depth_remaining + 1]
    IN  GoesOn([f EXCEPT !.pc = "moves",
                         !.do_futility = considered /\ wrap_i16(sum) < f.alpha,
                         !.best_score = min_val,
                         !.best_move = {},
                         !.node_type = "Upperbound",
                         !.rated_moves = pseudolegal_moves(f.board),
                         !.analyzed_moves = 0,
                         !.analyzed_quiets = {}],
               overflow \/ (considered /\ overflows_i16(sum)))

\* The null move played whenever can_null holds and the depth allows
negamax_null_move_unguarded(f, eval, overflow) ==
    IF f.can_null /\ f.depth_remaining > NULL_MOVE_REDUCTION
    THEN Calls([f EXCEPT !.pc = "null_called"],
               NegamaxFrame(make_null_move(f.board),
                            f.depth_remaining - NULL_MOVE_REDUCTION - 1,
                            f.current_depth + 1,
                            wrap_i16(-f.beta), wrap_i16(wrap_i16(-f.beta) + 1),
                            FALSE, f.next_pv_line),
               overflow \/ overflows_i16(-f.beta)
                        \/ overflows_i16(wrap_i16(-f.beta) + 1))
    ELSE negamax_futility(f, eval, overflow)

\* negamax, lines 295-298: the null move
negamax_null_move(f, eval, overflow) ==
    IF /\ f.can_null /\ ~f.is_check /\ f.depth_remaining > NULL_MOVE_REDUCTION
       /\ ~only_pawns_or_endgame(f.board) /\ ~f.is_pv
    THEN Calls([f EXCEPT !.pc = "null_called"],
               NegamaxFrame(make_null_move(f.board),
                            f.depth_remaining - NULL_MOVE_REDUCTION - 1,
                            f.current_depth + 1,
                            wrap_i16(-f.beta), wrap_i16(wrap_i16(-f.beta) + 1),
                            FALSE, f.next_pv_line),
               overflow \/ overflows_i16(-f.beta)
                        \/ overflows_i16(wrap_i16(-f.beta) + 1))
    ELSE negamax_futility(f, eval, overflow)

\* negamax, lines 266-281: the PV test and the reverse futility pruning
negamax_rev_futility(f0, eval) ==
    LET width == f0.beta - f0.alpha
        f == [f0 EXCEPT !.is_pv = wrap_i16(width) # 1, !.next_pv_line = PVLine_new]
        margin == f.depth_remaining * REV_FUTILITY_MARGIN
        reduced == eval - margin
    IN  IF ~f.is_pv /\ ~f.is_check /\ ~is_mate(f.beta)
        THEN IF wrap_i16(reduced) > f.beta
             THEN Returns(f, wrap_i16(reduced), "rev_futility",
                          overflows_i16(width) \/ overflows_i16(reduced))
             ELSE negamax_null_move(f, eval,
                                    overflows_i16(width) \/ overflows_i16(reduced))
        ELSE negamax_null_move(f, eval, overflows_i16(width))

\* negamax, lines 245-264: the draw by repetition, the check extension and
\* the leaf
negamax_draw(f0, history, eval) ==
    IF is_draw_by_repetition(f0.board, f0.current_depth, history)
    THEN Returns(f0, contempt, "draw", FALSE)
    ELSE LET check == is_check(f0.board, f0.board.turn)
             f == [f0 EXCEPT !.is_check = check,
                             !.depth_remaining = IF check THEN (@ + 1) % 256 ELSE @]
         IN  IF f.depth_remaining = 0
             THEN GoesOn(QuiescenceFrame(f.board, f.current_depth, f.alpha, f.beta,
                                         f.pv_line, TRUE), FALSE)
             ELSE negamax_rev_futility(f, eval)

\* negamax, lines 230-243: the answer of the table
negamax_probe(f0, tt_data, history, eval) ==
    IF tt_data = {} THEN negamax_draw(f0, history, eval)
    ELSE LET tt_score == the(tt_data).eval_score
             node_type == the(tt_data).node_type
             f == [f0 EXCEPT
                      !.alpha = IF node_type = "Lowerbound" THEN max(@, tt_score) ELSE @,
                      !.beta = IF node_type = "Upperbound" THEN min(@, tt_score) ELSE @]
         IN  IF node_type = "Exact" \/ f.alpha >= f.beta
             THEN Returns(f, tt_score, "tt", FALSE)
             ELSE negamax_draw(f, history, eval)

\* negamax, lines 203-223, after the count of the node and the poll of the
\* clock: t is the time manager as they leave it
negamax_enter(f, t, tt_data, history, eval) ==
    IF f.current_depth >= LIMIT_DEPTH THEN Returns(f, eval, "limit", FALSE)
    ELSE IF times_up(t) THEN Returns(f, 0, "timeout", FALSE)
    ELSE negamax_probe(f, tt_data, history, eval)

\* The windows of a recursive call: (-beta, -alpha) and ((-alpha) - 1, -alpha)
full_window(f) ==
    [alpha |-> wrap_i16(-f.beta), beta |-> wrap_i16(-f.alpha),
     overflow |-> overflows_i16(-f.beta) \/ overflows_i16(-f.alpha)]

minimal_window(f) ==
    [alpha |-> wrap_i16(wrap_i16(-f.alpha) - 1), beta |-> wrap_i16(-f.alpha),
     overflow |-> overflows_i16(-f.alpha) \/ overflows_i16(wrap_i16(-f.alpha) - 1)]

\* The recursive call on the board after the move, one ply further; the
\* callee writes its line into the caller's next line
negamax_call(f, pc, depth_remaining, window, overflow) ==
    Calls([f EXCEPT !.pc = pc],
          NegamaxFrame(the(f.next_board), depth_remaining, f.current_depth + 1,
                       window.alpha, window.beta, TRUE, f.next_pv_line),
          overflow \/ window.overflow)

\* negamax, lines 431-451: the bounds after a move has been scored
negamax_cutoff(f0, overflow) ==
    LET improves == f0.best_score > f0.alpha
        f == [f0 EXCEPT !.alpha = IF improves THEN f0.best_score ELSE @,
                        !.node_type = IF improves THEN "Exact" ELSE @]
    IN  IF f.best_score >= f.beta
        THEN GoesOn([f EXCEPT !.node_type = "Lowerbound", !.pc = "done"], overflow)
        ELSE GoesOn([f EXCEPT !.analyzed_quiets =
                                 IF f.mv # f.best_move /\ ~f.is_capture
                                 THEN @ \cup f.mv ELSE @,
                              !.next_pv_line = <<>>,
                              !.pc = "moves"],
                    overflow)

\* negamax, lines 420-429: the score of the move against the best score
negamax_scored(f0, score, overflow) ==
    LET f == [f0 EXCEPT !.analyzed_moves = @ + 1]
    IN  IF score > f.best_score
        THEN LET updated == update_line(f.pv_line, the(f.mv), f.next_pv_line)
             IN  IF updated.panic THEN Panics(f)
                 ELSE negamax_cutoff([f EXCEPT !.best_move = f.mv,
                                               !.best_score = score,
                                               !.pv_line = updated.moves,
                                               !.next_pv_line = updated.child_line],
                                     overflow)
        ELSE negamax_cutoff(f, overflow)

\* negamax, lines 405-416: the search of the move at full depth, with the
\* full window for the first move and the minimal window for the others
negamax_search_move(f, score, overflow) ==
    IF f.analyzed_moves = 0
    THEN negamax_call(f, "first_called", f.depth_remaining - 1, full_window(f),
                      overflow)
    ELSE IF f.do_full_depth
    THEN negamax_call(f, "zero_called", f.depth_remaining - 1, minimal_window(f),
                      overflow)
    ELSE negamax_scored(f, score, overflow)

\* negamax, lines 377-388: the late move reduction
reduction(f, is_tactical) ==
    IF /\ ~f.is_pv /\ ~is_tactical /\ f.depth_remaining >= 3
       /\ f.analyzed_moves >= LMR_MOVES /\ f.current_depth # 0
    THEN LET red == 2 + (((f.analyzed_moves - LMR_MOVES) % 256) \div 5)
         IN  IF red >= f.depth_remaining THEN f.depth_remaining - 1 ELSE red
    ELSE 0

\* negamax, lines 362-403: the move is skipped by the futility pruning, or
\* searched, with a reduced depth first if it is a late quiet move
negamax_try_move(f, mv, next_board, capture, is_tactical) ==
    IF f.do_futility /\ f.analyzed_moves # 0 /\ ~is_tactical
    THEN GoesOn(f, FALSE)
    ELSE IF reduction(f, is_tactical) # 0
    THEN negamax_call([f EXCEPT !.mv = {mv}, !.next_board = {next_board},
                                !.is_capture = capture, !.do_full_depth = TRUE],
                      "reduced_called",
                      f.depth_remaining - reduction(f, is_tactical),
                      minimal_window(f), FALSE)
    ELSE negamax_search_move([f EXCEPT !.mv = {mv}, !.next_board = {next_board},
                                       !.is_capture = capture,
                                       !.do_full_depth = TRUE],
                             0, FALSE)

\* negamax, lines 338-351: the legality of the move on the board it leads
\* to, and what the search wants to know of it
negamax_rate_move(f, mv, next_board, killer) ==
    IF mv.kind \in {"Normal", "PawnPromotion"} /\ is_check(next_board, f.board.turn)
    THEN GoesOn(f, FALSE)
    ELSE negamax_try_move(f, mv, next_board, is_capture(mv, f.board),
                          \/ f.is_check
                          \/ is_check(next_board, next_board.turn)
                          \/ is_capture(mv, f.board) \/ mv.kind = "PawnPromotion"
                          \/ piece_moving(mv, f.board) = Pawn
                          \/ killer)

\* negamax, lines 335-403: one pass of the loop over the moves as far as
\* its first recursive call; killer tells whether the move is one of the
\* killers of the ply
negamax_next_move(f, mv, killer) ==
    negamax_rate_move([f EXCEPT !.rated_moves = @ \ {mv}], mv,
                      make_move(f.board, mv), killer)

\* negamax, lines 297-306: what the null move search returned
negamax_after_null_move(f, score, eval, overflow) ==
    IF score >= f.beta /\ ~is_positive_mate(score)
    THEN Returns(f, f.beta, "null_cutoff", overflow)
    ELSE negamax_futility(
            [f EXCEPT !.depth_remaining = IF is_negative_mate(score)
                                          THEN (@ + 1) % 256 ELSE @],
            eval, overflow)

\* negamax when a recursive call returns value, the callee having left
\* pv_line in the line given to it
negamax_after_call(f0, value, pv_line, eval) ==
    LET score == wrap_i16(-value)
        overflow == overflows_i16(-value)
        f == [f0 EXCEPT !.next_pv_line = pv_line]
    IN  IF f.pc = "null_called"
        THEN negamax_after_null_move(f, score, eval, overflow)
        ELSE IF f.pc = "reduced_called"
        THEN negamax_search_move([f EXCEPT !.do_full_depth = score > f.alpha],
                                 score, overflow)
        ELSE IF f.pc = "zero_called" /\ score > f.alpha /\ score < f.beta
        THEN negamax_call(f, "full_called", f.depth_remaining - 1, full_window(f),
                          overflow)
        ELSE negamax_scored(f, score, overflow)

\* negamax, lines 454-479: after the loop.  A return by "stored" has called
\* write_entry with the depth, the score, the node type and the best move of
\* the frame, after update_histories if there is a best move.
negamax_finish(f, t) ==
    IF times_up(t) THEN Returns(f, 0, "timeout", FALSE)
    ELSE IF f.best_move # {} THEN Returns(f, f.best_score, "stored", FALSE)
    ELSE LET mated == min_val + f.current_depth
             best_score == IF f.is_check THEN wrap_i16(mated) ELSE contempt
         IN  Returns([f EXCEPT !.best_score = best_score], best_score, "stored",
                     f.is_check /\ overflows_i16(mated))

\* quiesence_search, lines 496-527, after the count of the node and the
\* poll of the clock
quiescence_enter(f, t, static_score) ==
    IF f.current_depth >= LIMIT_DEPTH THEN Returns(f, static_score, "limit", FALSE)
    ELSE IF times_up(t) THEN Returns(f, 0, "timeout", FALSE)
    ELSE IF static_score >= f.beta THEN Returns(f, f.beta, "stand_pat", FALSE)
    ELSE GoesOn([f EXCEPT !.alpha = IF static_score > @ THEN static_score ELSE @,
                          !.next_pv_line = PVLine_new,
                          !.rated_moves = pseudolegal_caps(f.board),
                          !.pc = "moves"],
                FALSE)

\* quiesence_search, lines 528-537: one pass of the loop as far as the
\* recursive call
quiescence_try_move(f, mv, next_board) ==
    IF is_check(next_board, f.board.turn)
    THEN GoesOn(f, FALSE)
    ELSE Calls([f EXCEPT !.mv = {mv}, !.pc = "called"],
               QuiescenceFrame(next_board, f.current_depth + 1,
                               full_window(f).alpha, full_window(f).beta,
                               f.next_pv_line, FALSE),
               full_window(f).overflow)

quiescence_next_move(f, mv) ==
    quiescence_try_move([f EXCEPT !.rated_moves = @ \ {mv}], mv,
                        make_move(f.board, mv))

\* quiesence_search, lines 537-548: what the recursive call returned
quiescence_after_call(f0, value, pv_line) ==
    LET next_score == wrap_i16(-value)
        overflow == overflows_i16(-value)
        f == [f0 EXCEPT !.next_pv_line = pv_line]
    IN  IF next_score >= f.beta THEN Returns(f, f.beta, "cutoff", overflow)
        ELSE IF next_score > f.alpha
        THEN LET updated == update_line(f.pv_line, the(f.mv), f.next_pv_line)
             IN  IF updated.panic THEN Panics(f)
                 ELSE GoesOn([f EXCEPT !.alpha = next_score,
                                       !.pv_line = updated.moves,
                                       !.next_pv_line = <<>>,
                                       !.pc = "moves"],
                             overflow)
        ELSE GoesOn([f EXCEPT !.next_pv_line = <<>>, !.pc = "moves"], overflow)

\* quiesence_search, line 551
quiescence_finish(f) == Returns(f, f.alpha, "alpha", FALSE)

\* find_best, lines 177-189: the way out of the loop
find_best_exit(s) ==
    [s EXCEPT !.pc = "returned",
              !.depth = IF s.depth > s.max_depth THEN s.depth - 1 ELSE s.depth,
              !.result = {[score |-> s.score, best_move |-> s.best_move]}]

\* find_best, lines 134 and 139: the score is outside the window
fails_low_strictly(score, alpha) == score < alpha

fails_low(score, alpha) == score <= alpha

fails_high(score, beta) == score >= beta

\* find_best, line 125: the score reported for an interrupted iteration
returned_score(score, previous_score) == score

interrupted_score(score, previous_score) == previous_score

\* find_best, lines 153-174, after an iteration has been accepted: the
\* additional time, the test of the time left and the next window.  It
\* gives the locals, the manager and whether an operation left its range.
find_best_advance(s, t, elapsed_micros) ==
    LET drop == s.previous_score - s.score
        worried == s.depth > 3 /\ wrap_i16(drop) >= PANIC_DROP
        extended == IF worried THEN add_panic_time(t) ELSE [timer |-> t, overflow |-> FALSE]
        search_time == sub_u64(elapsed_micros, s.t_start)
        remaining == remaining_micros(extended.timer, elapsed_micros)
        score_overflow == s.depth > 3 /\ overflows_i16(drop)
        window_overflow == \/ overflows_i16(s.score - ASP_WINDOW)
                           \/ overflows_i16(s.score + ASP_WINDOW)
        overflow == \/ score_overflow
                    \/ extended.overflow
                    \/ sub_overflows(elapsed_micros, s.t_start)
    IN  IF ~hard_limit(extended.timer) /\ search_time > remaining.micros
        THEN [search |-> find_best_exit(s), timer |-> remaining.timer,
              overflow |-> overflow, score_overflow |-> score_overflow]
        ELSE [search |-> [s EXCEPT !.alpha = wrap_i16(s.score - ASP_WINDOW),
                                   !.beta = wrap_i16(s.score + ASP_WINDOW),
                                   !.previous_score = s.score,
                                   !.depth = (@ + 1) % 256,
                                   !.searches = 0,
                                   !.pc = "loop"],
              timer |-> IF hard_limit(extended.timer) THEN extended.timer
                        ELSE remaining.timer,
              overflow |-> overflow \/ window_overflow,
              score_overflow |-> score_overflow \/ window_overflow]

\* find_best, lines 119-151, when negamax has returned value and left
\* pv_line in the line of find_best
find_best_iterate(s0, t, elapsed_micros, value, pv_line) ==
    LET s == [s0 EXCEPT !.score = value, !.pv_line = pv_line]
    IN  IF times_up(t)
        THEN [search |-> find_best_exit(
                            [s EXCEPT !.score = interrupted_score(@, s.previous_score),
                                      !.timed_out = TRUE]),
              timer |-> t, overflow |-> FALSE, score_overflow |-> FALSE]
        ELSE IF fails_low(s.score, s.alpha)
        THEN [search |-> [s EXCEPT !.alpha = min_val, !.pc = "loop"],
              timer |-> t, overflow |-> FALSE, score_overflow |-> FALSE]
        ELSE IF fails_high(s.score, s.beta)
        THEN [search |-> [s EXCEPT !.beta = max_val, !.pc = "loop"],
              timer |-> t, overflow |-> FALSE, score_overflow |-> FALSE]
        ELSE LET accepted == [s EXCEPT !.best_move = first(s.pv_line),
                                       !.accepted = {[score |-> s.score,
                                                      best_move |-> first(s.pv_line),
                                                      depth |-> s.depth]}]
             IN  IF is_mate(accepted.score)
                 THEN [search |-> find_best_exit(accepted), timer |-> t,
                       overflow |-> FALSE, score_overflow |-> FALSE]
                 ELSE find_best_advance(accepted, t, elapsed_micros)

-----------------------------------------------------------------------------
(* The search as a state machine.  A search is made for a position, the    *)
(* hashes of the game that led to it, the options of the request and a     *)
(* depth; the clock has run while the table was allocated.                 *)

\* 7k/6Q1/6K1/8/8/8/8/8 b - - 0 1: Black is mated
FenMated ==
    [board |-> {<<White, King, 6, 5>>, <<White, Queen, 6, 6>>, <<Black, King, 7, 7>>},
     turn |-> Black, castling |-> {}, ep |-> {},
     halfmoves |-> 0, fullmoves |-> 1]

\* 7k/8/8/4N3/8/8/p7/K7 w - - 99 60: a knight move is the hundredth
\* reversible ply, and from e5 to f7 or g6 it gives check
FenKnightFifty ==
    [board |-> {<<White, King, 0, 0>>, <<White, Knight, 4, 4>>,
                <<Black, King, 7, 7>>, <<Black, Pawn, 0, 1>>},
     turn |-> White, castling |-> {}, ep |-> {},
     halfmoves |-> 99, fullmoves |-> 60]

\* 7k/8/5K2/8/8/8/8/6Q1 b - - 0 1: Black has one legal move
FenOneMove ==
    [board |-> {<<White, King, 5, 5>>, <<White, Queen, 6, 0>>, <<Black, King, 7, 7>>},
     turn |-> Black, castling |-> {}, ep |-> {},
     halfmoves |-> 0, fullmoves |-> 1]

\* k7/8/8/3p4/4P3/8/8/K7 w - - 0 1: each side can capture a pawn
FenPawnTension ==
    [board |-> {<<White, King, 0, 0>>, <<White, Pawn, 4, 3>>,
                <<Black, King, 0, 7>>, <<Black, Pawn, 3, 4>>},
     turn |-> White, castling |-> {}, ep |-> {},
     halfmoves |-> 0, fullmoves |-> 1]

\* GameData::from_fen and ServerState::make_move: the board and the hashes
\* recorded after the moves of played have been played from b
RECURSIVE Played(_, _, _)
RECURSIVE Recorded(_, _, _)
Played(b, history, played) ==
    IF played = <<>> \/ b.plies + Len(history) < 0
    THEN [board |-> b, past_positions |-> history]
    ELSE Recorded(make_move(b, played[1]), history, SubSeq(played, 2, Len(played)))

\* The hash of the board is recorded and the rest of the moves is played
Recorded(b, history, played) ==
    Played(b, Append(history, b.state.zobrist_key), played)

Game(fen, played) == Recorded(from_fen(read_fen(fen)), <<>>, played)

\* The rooks of FenShuffle go from a1 to b1 and from a8 to b8 and back
ShuffleMoves ==
    <<Normal(from_file_rank(0, 0), from_file_rank(1, 0)),
      Normal(from_file_rank(0, 7), from_file_rank(1, 7)),
      Normal(from_file_rank(1, 0), from_file_rank(0, 0)),
      Normal(from_file_rank(1, 7), from_file_rank(0, 7))>>

\* The games searched; in the last the position of the root stands for the
\* third time
SearchGames ==
    <<Game(FenKnightFifty, <<>>), Game(FenMated, <<>>), Game(FenOneMove, <<>>),
      Game(FenPawnTension, <<>>), Game(FenShuffle, ShuffleMoves \o ShuffleMoves)>>

\* time_for_move, total_time_remaining, neither
SearchTimes ==
    {SearchOptions_new({}, {}, {20}), SearchOptions_new({1000}, {}, {}), DefaultOptions}

\* Search::from_config
Search_from_config(max_depth) ==
    [pc |-> "new", max_depth |-> min(max_depth, LIMIT_DEPTH), node_count |-> 0,
     depth |-> 0, alpha |-> 0, beta |-> 0, score |-> 0, previous_score |-> 0,
     searches |-> 0,
     best_move |-> {}, pv_line |-> PVLine_new, t_start |-> 0,
     timed_out |-> FALSE, accepted |-> {}, result |-> {}]

InitSearch ==
    /\ \E i \in 1 .. Len(SearchGames) :
         /\ board = SearchGames[i].board
         /\ past_positions = SearchGames[i].past_positions
    /\ current_depth = 0
    /\ line = <<>>
    /\ saved = <<>>
    /\ op = "from_config"
    /\ arg = MoveClass(NullMove, [ep |-> FALSE, captured_piece |-> None])
    /\ TTIdle
    /\ options \in SearchTimes
    /\ timer = TimeManager_new(options).timer
    /\ clock = 1000
    /\ overflow_checks \in BOOLEAN
    /\ panicked = FALSE
    /\ perft_result = {}
    /\ search = Search_from_config(MaxSearchDepth)
    /\ frames = <<>>
    /\ ret = {}
    /\ overflowed = FALSE
    /\ killers = Killers_new
    /\ history_table = HistoryTable_new
    /\ rated_moves = {}
    /\ fen_string = {}

\* What is left alone by every step of the search
beside_tables ==
    <<board, line, saved, arg, tt_vars, options, overflow_checks, perft_result,
      rated_moves, fen_string>>

beside_search == <<beside_tables, killers, history_table>>

\* find_best, lines 93-115
FindBest ==
    /\ search.pc = "new"
    /\ ~panicked
    /\ LET moves == legal_moves(board)
       IN  search' = IF Cardinality(moves) = 1
                     THEN [search EXCEPT !.pc = "returned",
                                         !.result = {[score |-> 0, best_move |-> moves]}]
                     ELSE [search EXCEPT !.pc = "loop",
                                         !.previous_score = 0,
                                         !.score = min_val,
                                         !.best_move = {},
                                         !.alpha = min_val,
                                         !.beta = max_val,
                                         !.depth = 1,
                                         !.pv_line = PVLine_new]
    /\ op' = "find_best"
    /\ UNCHANGED <<beside_search, rep_vars, timer, clock, panicked, frames, ret,
                   overflowed>>

\* The calls of negamax that find_best has made for the depth it is at are
\* counted in searches, as far as MaxSearches
MaxSearches == 4

\* find_best, lines 117-119: the test of the loop and the call of negamax
FindBestLoop ==
    /\ search.pc = "loop"
    /\ ~panicked
    /\ IF search.depth <= search.max_depth /\ ~times_up(timer)
       THEN /\ search' = [search EXCEPT !.pc = "negamax", !.t_start = clock,
                                        !.searches = min(@ + 1, MaxSearches)]
            /\ frames' = <<NegamaxFrame(board, search.depth, 0, search.alpha,
                                        search.beta, TRUE, search.pv_line)>>
       ELSE /\ search' = find_best_exit(search)
            /\ frames' = frames
    /\ op' = "find_best"
    /\ UNCHANGED <<beside_search, rep_vars, timer, clock, panicked, ret, overflowed>>

\* What an iteration leaves, unless a score or a time left its range in a
\* build that panics then
IterateStep(r) ==
    /\ overflowed' = (overflowed \/ r.score_overflow)
    /\ IF overflow_checks /\ r.overflow
       THEN /\ panicked' = TRUE
            /\ UNCHANGED <<search, timer>>
       ELSE /\ search' = r.search
            /\ timer' = r.timer
            /\ panicked' = panicked

\* find_best, lines 119-174: negamax has returned
FindBestIterate ==
    /\ search.pc = "negamax"
    /\ frames = <<>>
    /\ ret # {}
    /\ ~panicked
    /\ IterateStep(find_best_iterate(search, timer, clock, the(ret).value,
                                     the(ret).frame.pv_line))
    /\ ret' = {}
    /\ op' = "find_best"
    /\ UNCHANGED <<beside_search, rep_vars, clock, frames>>

\* The call in flight that is running
Running(kind, pcs) ==
    /\ ~panicked
    /\ frames # <<>>
    /\ Top(frames).kind = kind
    /\ Top(frames).pc \in pcs

\* node_count += 1; the search reads the count modulo the period of the
\* poll only, and the count is kept modulo that period
count_node(s) == [s EXCEPT !.node_count = (@ + 1) % UpdateEvery]

\* Lines 205-215 and 498-505: the manager after the poll of the clock at
\* the node counted last
polled(f, s, t, elapsed_micros) ==
    IF f.current_depth < LIMIT_DEPTH /\ s.node_count = 0
    THEN update(t, elapsed_micros)
    ELSE t

\* What a step of the running call leaves of the calls in flight: the call
\* goes on, or makes a call, or returns to its caller, or panics
CallStep(out) ==
    /\ overflowed' = (overflowed \/ out.overflow)
    /\ IF out.panic \/ (overflow_checks /\ out.overflow)
       THEN /\ panicked' = TRUE
            /\ UNCHANGED <<frames, ret, current_depth>>
       ELSE /\ panicked' = panicked
            /\ IF out.kind = "return"
               THEN /\ frames' = Pop(frames)
                    /\ ret' = {[value |-> out.value, via |-> out.via,
                                frame |-> out.frame]}
               ELSE /\ frames' = Pop(frames) \o <<out.frame>>
                                  \o (IF out.child = {} THEN <<>>
                                      ELSE <<the(out.child)>>)
                    /\ ret' = {}
            /\ current_depth' = IF frames' = <<>> THEN 0
                                ELSE Top(frames').current_depth

\* Line 370: the hash of the node is pushed before the recursive calls for
\* a move
MoveStep(out) ==
    /\ CallStep(out)
    /\ past_positions' = IF out.kind = "call"
                         THEN Append(past_positions, Top(frames).board.state.zobrist_key)
                         ELSE past_positions

\* Line 419: the hash is popped when the recursive calls for the move are
\* done; none was pushed for the null move
ScoredStep(out) ==
    /\ CallStep(out)
    /\ past_positions' = IF Top(frames).pc # "null_called" /\ out.kind # "call"
                         THEN Pop(past_positions)
                         ELSE past_positions

\* negamax from its entry to its first return, to the call of quiesence_search
\* (which takes its place), to the search of the null move, or to the loop
\* over the moves
NegamaxEnter ==
    /\ Running("negamax", {"enter"})
    /\ ret = {}
    /\ search' = count_node(search)
    /\ timer' = polled(Top(frames), search', timer, clock)
    /\ \E tt_data \in ProbeResults, eval \in StaticScores :
         CallStep(negamax_enter(Top(frames), timer', tt_data, past_positions, eval))
    /\ op' = "negamax"
    /\ UNCHANGED <<beside_search, past_positions, clock>>

\* negamax, one pass of the loop over the moves, which are taken in any
\* order: the move is skipped, or searched after the hash of the node has
\* been pushed
NegamaxNextMove ==
    /\ Running("negamax", {"moves"})
    /\ Top(frames).rated_moves # {}
    /\ \E mv \in Top(frames).rated_moves :
         MoveStep(negamax_next_move(Top(frames), mv,
                                    is_killer(killers, mv, Top(frames).current_depth)))
    /\ op' = "negamax"
    /\ UNCHANGED <<beside_search, search, timer, clock>>

\* negamax when the call it made has returned: it calls again for the same
\* move, or pops the hash and goes on with the loop, or leaves the loop; after
\* the null move it returns beta or starts the loop
NegamaxAfterCall ==
    /\ Running("negamax", {"null_called", "reduced_called", "first_called",
                           "zero_called", "full_called"})
    /\ ret # {}
    /\ \E eval \in StaticScores :
         ScoredStep(negamax_after_call(Top(frames), the(ret).value,
                                       the(ret).frame.pv_line, eval))
    /\ op' = "negamax"
    /\ UNCHANGED <<beside_search, search, timer, clock>>

\* Lines 460-463: the node that returns by "stored" with a best move has
\* called update_histories with it, with the quiet moves it analysed and
\* with the depth that remained
stored_histories(f, out, all_killers, data) ==
    IF out.kind = "return" /\ out.via = "stored" /\ f.best_move # {}
    THEN update_histories(all_killers, data, the(f.best_move), f.analyzed_quiets,
                          f.board, f.depth_remaining)
    ELSE [killers |-> all_killers, history |-> data, panic |-> FALSE]

TablesStep(out, stored) ==
    /\ CallStep([out EXCEPT !.panic = stored.panic])
    /\ killers' = stored.killers
    /\ history_table' = stored.history

FinishStep(f, out) == TablesStep(out, stored_histories(f, out, killers, history_table))

\* negamax after the loop
NegamaxFinish ==
    /\ \/ Running("negamax", {"done"})
       \/ Running("negamax", {"moves"}) /\ Top(frames).rated_moves = {}
    /\ FinishStep(Top(frames), negamax_finish(Top(frames), timer))
    /\ op' = "negamax"
    /\ UNCHANGED <<beside_tables, search, past_positions, timer, clock>>

QuiescenceEnter ==
    /\ Running("quiescence", {"enter"})
    /\ ret = {}
    /\ search' = count_node(search)
    /\ timer' = polled(Top(frames), search', timer, clock)
    /\ \E static_score \in StaticScores :
         CallStep(quiescence_enter(Top(frames), timer', static_score))
    /\ op' = "quiesence_search"
    /\ UNCHANGED <<beside_search, past_positions, clock>>

QuiescenceNextMove ==
    /\ Running("quiescence", {"moves"})
    /\ Top(frames).rated_moves # {}
    /\ \E mv \in Top(frames).rated_moves :
         CallStep(quiescence_next_move(Top(frames), mv))
    /\ op' = "quiesence_search"
    /\ UNCHANGED <<beside_search, search, past_positions, timer, clock>>

QuiescenceAfterCall ==
    /\ Running("quiescence", {"called"})
    /\ ret # {}
    /\ CallStep(quiescence_after_call(Top(frames), the(ret).value, the(ret).frame.pv_line))
    /\ op' = "quiesence_search"
    /\ UNCHANGED <<beside_search, search, past_positions, timer, clock>>

QuiescenceFinish ==
    /\ Running("quiescence", {"moves"})
    /\ Top(frames).rated_moves = {}
    /\ CallStep(quiescence_finish(Top(frames)))
    /\ op' = "quiesence_search"
    /\ UNCHANGED <<beside_search, search, past_positions, timer, clock>>

\* What elapsed_micros can read after the start of the search
SearchReadings == {10000}

\* The search is about to read the clock: find_best before and after its
\* call of negamax, a node before the poll
ReadsClock ==
    \/ search.pc = "loop"
    \/ search.pc = "negamax" /\ frames = <<>>
    \/ /\ frames # <<>>
       /\ Top(frames).pc = "enter"
       /\ count_node(search).node_count = 0

\* Time passes while find_best runs: the clock moves on before it is read;
\* the clock of a search without a limit of time is never compared with
\* anything
SearchElapse ==
    /\ ReadsClock
    /\ ~panicked
    /\ ~timer.unlimited
    /\ \E reading \in SearchReadings :
         /\ reading > clock
         /\ clock' = reading
    /\ op' = "elapse"
    /\ UNCHANGED <<beside_search, rep_vars, search_vars, timer, panicked>>

NextSearch ==
    \/ FindBest \/ FindBestLoop \/ FindBestIterate
    \/ NegamaxEnter \/ NegamaxNextMove \/ NegamaxAfterCall \/ NegamaxFinish
    \/ QuiescenceEnter \/ QuiescenceNextMove \/ QuiescenceAfterCall
    \/ QuiescenceFinish
    \/ SearchElapse

SpecSearch == InitSearch /\ [][NextSearch]_vars

\* find_best has returned or a call has panicked
SearchEnded == panicked \/ search.pc = "returned"

\* The thread of the search runs on.  This is WF_vars(NextSearch) written
\* out: a step of NextSearch can be taken exactly as long as the search has
\* not ended, and either the search ends or steps are taken for ever.
SpecSearchLive == SpecSearch /\ ([]<>SearchEnded \/ []<><<NextSearch>>_vars)

-----------------------------------------------------------------------------
(* The heuristics of a Search on their own: nodes of negamax come to the   *)
(* end of their loop over the moves with what the loop has found, drawn    *)
(* from the moves of the position, and moves are ordered for nodes at      *)
(* every ply.  At ply p of a search of depth d the depth that remains is   *)
(* d - p.                                                                  *)

HistoryFloor == 1

\* The moves of FenEpSet that the loop of a node has dealt with: d4-d3,
\* d4xe3 en passant and O-O
NodeMoves ==
    {Normal(from_file_rank(3, 3), from_file_rank(3, 2)),
     Normal(from_file_rank(3, 3), from_file_rank(4, 2)),
     ShortCastle}

\* The windows of the nodes and the scores their best moves get: a best
\* score inside the window and one over it
NodeWindow == [alpha |-> -30, beta |-> 30]

NodeScores == {0, 40}

\* The node at ply cur_depth of a search of the given depth, at the end of
\* its loop: best_move had score, and quiet_moves were analysed without
\* being the best when they were
NodeSearchedFrame(b, depth, cur_depth, best_move, score, quiet_moves) ==
    [NegamaxFrame(b, depth - cur_depth, cur_depth, NodeWindow.alpha,
                  NodeWindow.beta, TRUE, PVLine_new)
        EXCEPT !.pc = "done",
               !.best_move = {best_move},
               !.best_score = score,
               !.alpha = max(score, NodeWindow.alpha),
               !.node_type = IF score >= NodeWindow.beta THEN "Lowerbound"
                             ELSE IF score > NodeWindow.alpha THEN "Exact"
                             ELSE "Upperbound",
               !.analyzed_moves = 1 + Cardinality(quiet_moves),
               !.analyzed_quiets = quiet_moves]

InitOrder ==
    /\ board = from_fen(read_fen(FenEpSet))
    /\ NodeMoves \subseteq legal_moves(board)
    /\ past_positions = <<board.state.zobrist_key>>
    /\ current_depth = 0
    /\ line = <<>>
    /\ saved = <<>>
    /\ op = "from_config"
    /\ arg = MoveClass(NullMove, [ep |-> FALSE, captured_piece |-> None])
    /\ TTIdle
    /\ options = DefaultOptions
    /\ timer = TimeManager_new(options).timer
    /\ clock = 0
    /\ overflow_checks = FALSE
    /\ panicked = FALSE
    /\ perft_result = {}
    /\ search = [Search_from_config(MaxSearchDepth) EXCEPT !.pc = "negamax"]
    /\ frames = <<>>
    /\ ret = {}
    /\ overflowed = FALSE
    /\ killers = Killers_new
    /\ history_table = HistoryTable_new
    /\ rated_moves = {}
    /\ fen_string = {}

\* A node that has ordered its moves comes to the end of its loop, which has
\* used up the vector
NodeSearched ==
    /\ frames = <<>>
    /\ ret = {}
    /\ rated_moves # {}
    /\ ~panicked
    /\ \A c \in DOMAIN history_table : history_table[c] >= -HistoryFloor
    /\ \E depth \in 1 .. MaxSearchDepth, best_move \in NodeMoves,
          score \in NodeScores :
         \E cur_depth \in {the(rated_moves).current_depth} \cap (0 .. (depth - 1)),
            quiet_moves \in SUBSET {mv \in NodeMoves :
                                        mv # best_move /\ ~is_capture(mv, board)} :
            /\ Cardinality(quiet_moves) <= 1
            /\ frames' = <<NodeSearchedFrame(board, depth, cur_depth, best_move,
                                            score, quiet_moves)>>
            /\ current_depth' = cur_depth
    /\ ret' = {}
    /\ rated_moves' = {}
    /\ op' = "negamax"
    /\ UNCHANGED <<board, line, saved, arg, tt_vars, past_positions, time_vars,
                   perft_result, search, overflowed, killers, history_table,
                   fen_string>>

\* The caller of the node takes what it returned
NodeReturned ==
    /\ frames = <<>>
    /\ ret # {}
    /\ ret' = {}
    /\ rated_moves' = {}
    /\ op' = "returned"
    /\ UNCHANGED <<board, line, saved, arg, tt_vars, rep_vars, time_vars, perft_result,
                   search, frames, overflowed, killers, history_table, fen_string>>

\* Line 330: the moves of a node at ply cur_depth are ordered
OrderMoves ==
    /\ frames = <<>>
    /\ ret = {}
    /\ rated_moves = {}
    /\ ~panicked
    /\ \E cur_depth \in 0 .. (MaxSearchDepth - 1),
          tt_mv \in {{}, {ShortCastle}},
          tie_break \in {-1, 1} :
         rated_moves' =
            {[board |-> board, current_depth |-> cur_depth, tt_move |-> tt_mv,
              moves |-> order_moves(pseudolegal_moves(board), board, tt_mv,
                                    killers_at(killers, cur_depth), history_table,
                                    tie_break)]}
    /\ op' = "order_moves"
    /\ UNCHANGED <<board, line, saved, arg, tt_vars, rep_vars, time_vars, perft_result,
                   search_vars, killers, history_table, fen_string>>

NextOrder == NodeSearched \/ NegamaxFinish \/ NodeReturned \/ OrderMoves

SpecOrder == InitOrder /\ [][NextOrder]_vars

-----------------------------------------------------------------------------
(* Boards written as FEN: a board is made from a text, moves are made and  *)
(* unmade on it as far as MaxFenPly, and Board::fen is called on the board *)
(* reached.  fen_string then holds the board, the text written and the     *)
(* board that Board::from_fen makes of the text, until the board changes.  *)

MaxFenPly == 2

FenTexts == {DEFAULT_FEN, TextCastles, TextEpSet, TextFiftyMoves, TextLateClock}

Written(b, text) == [board |-> b, text |-> text, parsed |-> Board_from_fen(text)]

beside_fen == <<tt_vars, rep_vars, time_vars, perft_result, search_vars, order_vars>>

InitFen ==
    /\ \E text \in FenTexts :
         /\ Board_from_fen(text) # {}
         /\ board \in Board_from_fen(text)
         /\ fen_string = {Written(board, text)}
    /\ line = <<>>
    /\ saved = <<>>
    /\ op = "from_fen"
    /\ arg = MoveClass(NullMove, [ep |-> FALSE, captured_piece |-> None])
    /\ TTIdle
    /\ past_positions = <<>>
    /\ current_depth = 0
    /\ TimeIdle

FenMakeMove ==
    /\ Len(line) < MaxFenPly
    /\ CanRecurse
    /\ \E mv \in pseudolegal_moves(board) :
         /\ board' = make_move(board, mv)
         /\ line' = Append(line, mv)
         /\ arg' = MoveClass(mv, Top(board'.previous_moves))
    /\ saved' = Append(saved, board)
    /\ op' = "make_move"
    /\ fen_string' = {}
    /\ UNCHANGED beside_fen

FenUnmakeMove ==
    /\ line # <<>>
    /\ Top(line).kind # "Null"
    /\ board' = unmake_move(board, Top(line))
    /\ line' = Pop(line)
    /\ saved' = Pop(saved)
    /\ op' = "unmake_move"
    /\ arg' = MoveClass(Top(line), Top(board.previous_moves))
    /\ fen_string' = {}
    /\ UNCHANGED beside_fen

FenMakeNullMove ==
    /\ Len(line) < MaxFenPly
    /\ CanRecurse
    /\ NotAfterNull
    /\ ~is_check(board, board.turn)
    /\ board' = make_null_move(board)
    /\ line' = Append(line, NullMove)
    /\ saved' = Append(saved, board)
    /\ op' = "make_null_move"
    /\ arg' = MoveClass(NullMove, Top(board'.previous_moves))
    /\ fen_string' = {}
    /\ UNCHANGED beside_fen

FenUnmakeNullMove ==
    /\ line # <<>>
    /\ Top(line).kind = "Null"
    /\ board' = unmake_null_move(board)
    /\ line' = Pop(line)
    /\ saved' = Pop(saved)
    /\ op' = "unmake_null_move"
    /\ arg' = MoveClass(NullMove, Top(board.previous_moves))
    /\ fen_string' = {}
    /\ UNCHANGED beside_fen

\* Board::fen
BoardFen ==
    /\ fen_string = {}
    /\ fen_string' = {Written(board, create_fen(board))}
    /\ UNCHANGED <<board_vars, beside_fen>>

NextFen ==
    FenMakeMove \/ FenUnmakeMove \/ FenMakeNullMove \/ FenUnmakeNullMove \/ BoardFen

SpecFen == InitFen /\ [][NextFen]_vars

-----------------------------------------------------------------------------
(* The null move on its own: negamax is called at ply 1, after a legal     *)
(* move of the root, with a depth, a window and a can_null drawn from what *)
(* a search hands down; the call is followed through its entry, through    *)
(* the entry of the call it makes for a null move, and through the return  *)
(* of that call, and no further.                                           *)

MaxNullDepth == 4

NullRoots == {FenCastles, FenEpSet, FenQueenEnding}

\* A null window, an aspiration window, and a window that an Upperbound of
\* the table can narrow to a width of one
NullWindows == {<<-1, 0>>, <<10, 70>>, <<39, 70>>}

InitNull ==
    /\ board \in {from_fen(read_fen(fen)) : fen \in NullRoots}
    /\ past_positions = <<board.state.zobrist_key>>
    /\ current_depth = 0
    /\ line = <<>>
    /\ saved = <<>>
    /\ op = "from_config"
    /\ arg = MoveClass(NullMove, [ep |-> FALSE, captured_piece |-> None])
    /\ TTIdle
    /\ options = DefaultOptions
    /\ timer = TimeManager_new(options).timer
    /\ clock = 0
    /\ overflow_checks = FALSE
    /\ panicked = FALSE
    /\ perft_result = {}
    /\ search = [Search_from_config(MaxNullDepth) EXCEPT !.pc = "negamax"]
    /\ frames = <<>>
    /\ ret = {}
    /\ overflowed = FALSE
    /\ killers = Killers_new
    /\ history_table = HistoryTable_new
    /\ rated_moves = {}
    /\ fen_string = {}

\* Lines 370-410: the root has pushed its hash and calls negamax for a move
NegamaxCalled ==
    /\ frames = <<>>
    /\ ret = {}
    /\ \E mv \in legal_moves(board), depth \in 1 .. MaxNullDepth,
          window \in NullWindows, can_null \in BOOLEAN :
         frames' = <<NegamaxFrame(make_move(board, mv), depth, 1, window[1],
                                  window[2], can_null, PVLine_new)>>
    /\ past_positions' = Append(past_positions, board.state.zobrist_key)
    /\ current_depth' = 1
    /\ op' = "called"
    /\ UNCHANGED <<beside_search, search, ret, overflowed, timer, clock, panicked>>

\* The calls in flight are followed no further: the call at the top is past
\* its entry and is not waiting for the return of a null move
CallsDropped ==
    /\ frames # <<>> \/ ret # {}
    /\ ~(Running("negamax", {"enter"}) /\ ret = {})
    /\ ~(Running("negamax", {"null_called"}) /\ ret # {})
    /\ frames' = <<>>
    /\ ret' = {}
    /\ past_positions' = <<board.state.zobrist_key>>
    /\ current_depth' = 0
    /\ op' = "dropped"
    /\ UNCHANGED <<beside_search, search, overflowed, timer, clock, panicked>>

NextNull == NegamaxCalled \/ NegamaxEnter \/ NegamaxAfterCall \/ CallsDropped

SpecNull == InitNull /\ [][NextNull]_vars

-----------------------------------------------------------------------------
(* The rules of chess, stated on the squares and independently of the      *)
(* attack tables and of the cached bitboards                               *)

Abs(x) == IF x < 0 THEN -x ELSE x

Sign(x) == IF x < 0 THEN -1 ELSE IF x > 0 THEN 1 ELSE 0

Occupied(b, sq) == b.piece_on_square[sq] # None

\* Every square strictly between two squares of one line is empty
ClearBetween(b, from, to) ==
    LET dx == (to % 8) - (from % 8)
        dy == (to \div 8) - (from \div 8)
        n == IF Abs(dx) > Abs(dy) THEN Abs(dx) ELSE Abs(dy)
    IN  \A k \in 1 .. (n - 1) : ~Occupied(b, from + k * (Sign(dy) * 8 + Sign(dx)))

\* The piece of the given colour standing on from attacks the square to
Attacks(b, color, from, to) ==
    LET dx == (to % 8) - (from % 8)
        dy == (to \div 8) - (from \div 8)
        straight == (dx = 0 \/ dy = 0) /\ ClearBetween(b, from, to)
        diagonal == Abs(dx) = Abs(dy) /\ ClearBetween(b, from, to)
        pt == b.piece_on_square[from]
    IN  /\ from # to
        /\ CASE pt = Pawn -> Abs(dx) = 1 /\ dy = (IF color = White THEN 1 ELSE -1)
             [] pt = Knight -> {Abs(dx), Abs(dy)} = {1, 2}
             [] pt = King -> Abs(dx) <= 1 /\ Abs(dy) <= 1
             [] pt = Rook -> straight
             [] pt = Bishop -> diagonal
             [] pt = Queen -> straight \/ diagonal
             [] OTHER -> FALSE

KingSquares(b, color) ==
    {sq \in get_color_bitboard(b, color) : b.piece_on_square[sq] = King}

\* A king of the colour stands attacked by a piece of the other colour
KingAttacked(b, color) ==
    \E k \in KingSquares(b, color) :
        \E from \in get_color_bitboard(b, NotColor(color)) :
            Attacks(b, NotColor(color), from, k)

\* The side to move is attacked and every move the rules give it leaves its
\* king attacked
Checkmate(b) ==
    /\ KingAttacked(b, b.turn)
    /\ \A mv \in get_pseudolegal_moves(b, b.turn) :
          KingAttacked(make_move(b, mv), b.turn)

-----------------------------------------------------------------------------
(* Claims *)

\* C1: make_move(m) followed by unmake_move(m) restores the position
\* exactly, for every pseudolegal move m of every reachable position: every
\* field of the board, the Zobrist key and the undo stack included, equals
\* the clone taken before the move was made.
MakeUnmakeRestores ==
    [][op' = "unmake_move" => board' = Top(saved)]_vars

\* C1 witness: a capture that is not en passant has been made and unmade
CaptureUnmade ==
    op = "unmake_move" /\ arg.kind = "Normal" /\ arg.captured /\ ~arg.ep

\* C2: the incrementally maintained Zobrist key equals the key that
\* create_zobrist_key computes from scratch for the current position.
ZobristKeyMatchesScratch ==
    board.state.zobrist_key =
        create_zobrist_key([board EXCEPT !.state.zobrist_key = {}]).state.zobrist_key

\* C2 witness: a double push has been made with no enemy pawn next to its
\* destination, so the e.p. target is set and its file is not in the key
EpFileNotHashed ==
    /\ op = "make_move"
    /\ ep_square(board) # {}
    /\ get_key_ep_square(first_piece_index(ep_square(board)))
           \cap board.state.zobrist_key = {}

\* C3: the board representation is consistent: the 12 piece bitboards are
\* pairwise disjoint, the colour unions and all_pieces are the unions of
\* their parts, piece_on_square agrees with the bitboards, and each colour
\* has exactly one king.
BoardConsistent ==
    LET boards == {<<c, pt>> : c \in {White, Black}, pt \in PieceTypes}
        bb(x) == get_pieces_of_type(get_pieces(board, x[1]), x[2])
    IN  /\ \A x \in boards : \A y \in boards : x # y => bb(x) \cap bb(y) = {}
        /\ board.all_whites = UNION {bb(<<White, pt>>) : pt \in PieceTypes}
        /\ board.all_blacks = UNION {bb(<<Black, pt>>) : pt \in PieceTypes}
        /\ board.all_pieces = board.all_whites \cup board.all_blacks
        /\ \A sq \in Squares : \A pt \in PieceTypes :
              board.piece_on_square[sq] = pt
                  <=> sq \in bb(<<White, pt>>) \cup bb(<<Black, pt>>)
        /\ \A sq \in Squares :
              board.piece_on_square[sq] = None <=> sq \notin board.all_pieces
        /\ Cardinality(board.white_pieces.king) = 1
        /\ Cardinality(board.black_pieces.king) = 1

\* C3 witness: a pawn has promoted while capturing a rook
PromotionCapturedRook ==
    /\ op = "make_move"
    /\ arg.kind = "PawnPromotion"
    /\ Top(board.previous_moves).captured_piece = Rook

\* C4: every move of legal_moves(P) leaves the mover's king unattacked once
\* made, the castling moves that legal_moves accepts untested included;
\* that is, a move after which the mover's king stands attacked is not a
\* move of legal_moves(P).
LegalMovesLeaveKingSafe ==
    (op = "make_move" /\ KingAttacked(board, NotColor(board.turn)))
        => Top(line) \notin legal_moves(Top(saved))

\* C4 witness: a castling move of legal_moves has been made
LegalCastleMade ==
    /\ op = "make_move"
    /\ is_castle(Top(line))
    /\ Top(line) \in legal_moves(Top(saved))

\* C5: the cached attack bitboards equal get_controlled_squares recomputed
\* on the current position, and is_check(c) holds exactly when c's king is
\* attacked.
AttackCachesCurrent ==
    /\ board.state.white_attacks = get_controlled_squares(board, White)
    /\ board.state.black_attacks = get_controlled_squares(board, Black)
    /\ \A c \in {White, Black} : is_check(board, c) <=> KingAttacked(board, c)

\* C5 witness: a move has been made that gives check
CheckGiven ==
    op = "make_move" /\ is_check(board, board.turn)

\* C6: make_null_move followed by unmake_null_move restores the position
\* exactly, and make_null_move changes only the side to move, the e.p.
\* target (cleared), the key, the ply count and the full-move number (and
\* pushes the undo record).
NullMoveInvolution ==
    [][/\ op' = "unmake_null_move" => board' = Top(saved)
       /\ op' = "make_null_move" =>
            /\ board'.white_pieces = board.white_pieces
            /\ board'.black_pieces = board.black_pieces
            /\ board'.all_whites = board.all_whites
            /\ board'.all_blacks = board.all_blacks
            /\ board'.all_pieces = board.all_pieces
            /\ board'.piece_on_square = board.piece_on_square
            /\ board'.state.castling_rights = board.state.castling_rights
            /\ board'.state.white_attacks = board.state.white_attacks
            /\ board'.state.black_attacks = board.state.black_attacks
            /\ board'.state.fifty_move_rule_counter
                   = board.state.fifty_move_rule_counter
            /\ board'.state.last_moved = board.state.last_moved
            /\ board'.state.en_passant_target = {}
            /\ board'.turn = NotColor(board.turn)
            /\ board'.plies = board.plies + 1
            /\ board'.full_turns
                   = board.full_turns + (IF board.turn = Black THEN 1 ELSE 0)
            /\ Len(board'.previous_moves) = Len(board.previous_moves) + 1]_vars

\* C6 witness: a null move has been made by Black and unmade in a position
\* whose e.p. target is set
NullMoveUnmadeWithEp ==
    op = "unmake_null_move" /\ ep_square(board) # {} /\ board.turn = Black

\* C7: after make_move the 50-move counter is 0 if the move captured
\* (a piece left the board) or moved a pawn, and the previous value plus 1
\* otherwise, a castling move counting once.
FiftyMoveCounterRule ==
    op = "make_move" =>
        LET prev == Top(saved)
            mv == Top(line)
            captured == Cardinality({sq \in Squares : Occupied(board, sq)})
                            < Cardinality({sq \in Squares : Occupied(prev, sq)})
            pawn_moved == ~is_castle(mv) /\ prev.piece_on_square[mv.from] = Pawn
        IN  board.state.fifty_move_rule_counter =
                IF captured \/ pawn_moved THEN 0
                ELSE prev.state.fifty_move_rule_counter + 1

\* C7 witness: a castling move made when the counter stood at 1
CastleCountedOnce ==
    /\ op = "make_move"
    /\ is_castle(Top(line))
    /\ Top(saved).state.fifty_move_rule_counter = 1
    /\ board.state.fifty_move_rule_counter = 2

\* A pawn moving two ranks
IsDoublePush(prev, mv) ==
    /\ mv.kind = "Normal"
    /\ prev.piece_on_square[mv.from] = Pawn
    /\ Abs(mv.to - mv.from) = 16

\* C8: the e.p. target is empty, or it is one empty square between the
\* (empty) origin and the destination of a pawn double push of the side
\* that just moved, whose pawn stands on the destination, and that double
\* push is the move made on the preceding ply; any other move and any null
\* move leaves the target empty.
EpTargetRule ==
    LET ep == ep_square(board)
        pusher == NotColor(board.turn)
        sq == first_piece_index(ep)
        origin == IF pusher = White THEN sq - 8 ELSE sq + 8
        dest == IF pusher = White THEN sq + 8 ELSE sq - 8
    IN  /\ ep # {} =>
              /\ Cardinality(ep) = 1
              /\ rank(sq) = (IF pusher = White THEN 2 ELSE 5)
              /\ ~Occupied(board, sq)
              /\ ~Occupied(board, origin)
              /\ board.piece_on_square[dest] = Pawn
              /\ dest \in get_color_bitboard(board, pusher)
              /\ line # <<>> => Top(line) = Normal(origin, dest)
        /\ (line # <<>> /\ Top(line).kind = "Null") => ep = {}
        /\ (line # <<>> /\ Top(line).kind # "Null"
              /\ ~IsDoublePush(Top(saved), Top(line))) => ep = {}

\* C8 witness: a null move has just been made in a position whose e.p.
\* target was set
NullMoveClearedEp ==
    /\ op = "make_null_move"
    /\ ep_square(Top(saved)) # {}
    /\ ep_square(board) = {}

\* C9: when legal_moves() is empty, the side to move is in check if and
\* only if the position is a checkmate.
EmptyListInCheckIsMate ==
    (CanRecurse /\ legal_moves(board) = {})
        => (is_check(board, board.turn) <=> Checkmate(board))

\* C10: get_entry(key, d, tt_move) returns an entry only if write_entry
\* has stored into the slot key mod N (a slot never written gives no hit),
\* the slot holds exactly that key and the stored depth is at least d;
\* tt_move becomes the stored best move whenever the stored key matches,
\* and keeps its value when it does not.
GetEntryHitsOnlyWritten ==
    tt_call.op = "get_entry" =>
        LET index == tt_call.key % TTSize
            entry == tt[index]
        IN  /\ tt_call.data # {} =>
                  /\ tt_stored[index]
                  /\ entry.zobrist = tt_call.key
                  /\ tt_call.data = {entry.data}
                  /\ entry.data.depth >= tt_call.depth
            /\ entry.zobrist = tt_call.key => tt_move = entry.data.best_move
            /\ entry.zobrist # tt_call.key => tt_move = tt_call.tt_move

\* One bound type tells more than the stored one: read as the code's test,
\* a different type replacing a stored type that is not Exact
MoreInformative(new_type, stored_type) ==
    new_type # stored_type /\ stored_type # "Exact"

\* C11: write_entry always overwrites a slot whose stored key differs from
\* the new key; when the stored key is the same it overwrites when the new
\* depth is greater than or equal to the stored depth or the new bound type
\* is more informative than the stored one, and otherwise keeps the stored
\* entry.
WriteEntryReplacesAtEqualDepth ==
    [][tt_call'.op = "write_entry" =>
         LET index == tt_call'.key % TTSize
             prev_entry == tt[index]
             new_data == CHOOSE d \in tt_call'.data : TRUE
             entry == [zobrist |-> tt_call'.key, data |-> new_data]
             replaces ==
                 \/ prev_entry.zobrist # tt_call'.key
                 \/ new_data.depth >= prev_entry.data.depth
                 \/ MoreInformative(new_data.node_type, prev_entry.data.node_type)
         IN  tt' = [tt EXCEPT ![index] = IF replaces THEN entry ELSE prev_entry]]_vars

\* The root of the running search, and the hash of the position that stood
\* at a ply: a played one as the server recorded it, a later one as the
\* board of the ancestor searched at that ply
SearchRoot == IF saved = <<>> THEN board ELSE saved[1]

HashAtPly(p) ==
    IF p <= SearchRoot.plies THEN past_positions[p + 1]
    ELSE saved[p - SearchRoot.plies + 1].state.zobrist_key

\* The earlier plies that can repeat the current position: not before the
\* last irreversible move, and with the same side to move
EarlierPlies ==
    {p \in 0 .. (board.plies - 1) :
        /\ p >= board.plies - board.state.fifty_move_rule_counter
        /\ (board.plies - p) % 2 = 0}

EarlierOccurrences ==
    {p \in EarlierPlies : HashAtPly(p) = board.state.zobrist_key}

\* C12: called on a node of the search with the hashes of the played
\* positions followed by the hashes pushed by the ancestors of the node,
\* is_draw_by_repetition returns true when the current hash has occurred
\* twice among the earlier positions since the last irreversible ply with the
\* same side to move, or once at a ply strictly greater than the last played
\* ply, and returns false when it has not occurred among them.
RepetitionDrawDetected ==
    LET last_played_ply == board.plies - current_depth
        draw == is_draw_by_repetition(board, current_depth, past_positions)
    IN  /\ (\/ Cardinality(EarlierOccurrences) >= 2
            \/ \E p \in EarlierOccurrences : p > last_played_ply) => draw
        /\ EarlierOccurrences = {} => ~draw


\* C15: times_up() returns true whenever the manager is not unlimited and
\* the elapsed time has reached the budget, and never returns true when the
\* manager is unlimited.
TimesUpFollowsClock ==
    TimeRunning =>
        /\ (~timer.unlimited /\ clock >= timer.time_for_this_move) => times_up(timer)
        /\ timer.unlimited => ~times_up(timer)

\* The time the options grant for the move, in microseconds
GrantedMicros(opts) ==
    IF opts.time_for_move # {} THEN the(opts.time_for_move) * 1000
    ELSE the(opts.total_time_remaining) * 1000

\* The budget prescribed for the options when the prescription is in range
PrescribedBudget(opts) ==
    IF opts.time_for_move # {}
    THEN the(opts.time_for_move) * 1000 - OFFSET
    ELSE ((((the(opts.total_time_remaining) * 1000)
              \div max(1, unwrap_or(opts.moves_until_control, 40))) * 4) \div 5)
         - OFFSET

\* C16: for every combination of inputs TimeManager::new returns, with the
\* budget time_for_move - offset and the hard limit set when time_for_move is
\* given, otherwise with the budget total_remaining / max(1, moves until
\* control or 40) * 0.8 - offset when a total is given, otherwise unlimited;
\* also for no moves until control and for times below the offset, without
\* wrapping, so that the budget never exceeds the time the inputs grant.
BudgetAsPrescribed ==
    op = "new" =>
        /\ ~panicked
        /\ timer.hard_limit = (options.time_for_move # {})
        /\ timer.unlimited =
              (options.time_for_move = {} /\ options.total_time_remaining = {})
        /\ ~timer.unlimited =>
              /\ timer.time_for_this_move <= GrantedMicros(options)
              /\ (PrescribedBudget(options) >= 0 /\ GrantedMicros(options) < U64_RANGE)
                    => timer.time_for_this_move = PrescribedBudget(options)

\* C17: add_panic_time never shortens the budget and never raises it above
\* three quarters of the total time remaining: the new budget lies between
\* the old one and the larger of the old one and that cap, and is 1.3 times
\* the old one when that is below the cap; under a hard limit or with
\* unlimited time the budget is unchanged.
PanicTimeExtendsWithinCap ==
    [][op' = "add_panic_time" =>
         LET old == timer.time_for_this_move
             new == timer'.time_for_this_move
             cap == (timer.total_remaining * 75) \div 100
         IN  /\ ~panicked'
             /\ old <= new
             /\ new <= max(old, cap)
             /\ (old * 13) \div 10 < cap => new = (old * 13) \div 10
             /\ (timer.hard_limit \/ timer.unlimited) => new = old]_vars

\* The number of sequences of d successive moves from b, each one of the
\* legal moves of the position it is played in
RECURSIVE LegalSequences(_, _)
LegalSequences(b, d) ==
    IF d = 0 THEN 1
    ELSE LET RECURSIVE over(_)
             over(moves) ==
                 IF moves = {} THEN 0
                 ELSE LET mv == CHOOSE m \in moves : TRUE
                      IN  LegalSequences(make_move(b, mv), d - 1)
                             + over(moves \ {mv})
         IN  over(legal_moves(b))

\* C20: perft(P, d) is the number of sequences of d successive legal moves
\* from P, whether the moves of the root are counted serially on one board
\* with make and unmake, in parallel on one clone of the board for each, or
\* on the boards returned by make_move.
PerftCountsLegalSequences ==
    \A r \in perft_result : r.count = LegalSequences(Top(saved), r.depth)

\* A count of depth two from a position where a pseudolegal move is not legal
PerftFilteredPosition ==
    \E r \in perft_result :
        /\ r.called = "_perft"
        /\ r.depth = 2
        /\ r.count > 0
        /\ board = Top(saved)
        /\ pseudolegal_moves(board) # legal_moves(board)

\* C18: an iteration of find_best is accepted (best move set, window
\* re-centred at the score plus and minus ASP_WINDOW, depth incremented) only
\* when its score lies strictly inside the window; when time is not up and
\* the score is at or below alpha the same depth is searched again with
\* alpha at the minimum and the same beta, and when it is at or above beta
\* the same depth is searched again with beta at the maximum and the same
\* alpha; the search that follows is given the depth and the window of
\* find_best.
AspirationWindowResearch ==
    [][/\ (search.pc = "negamax" /\ search'.pc \in {"loop", "returned"}) =>
            LET score == the(ret).value
                researched ==
                    /\ search'.pc = "loop"
                    /\ search'.depth = search.depth
                    /\ search'.depth <= search'.max_depth
                    /\ ~times_up(timer')
                    /\ search'.best_move = search.best_move
                    /\ search'.accepted = search.accepted
            IN  /\ (\/ search'.accepted # search.accepted
                    \/ search'.depth # search.depth
                    \/ search'.best_move # search.best_move
                    \/ search'.previous_score # search.previous_score)
                      => (search.alpha < score /\ score < search.beta)
                /\ (~times_up(timer) /\ score <= search.alpha) =>
                      /\ researched
                      /\ search'.alpha = min_val
                      /\ search'.beta = search.beta
                /\ (~times_up(timer) /\ score > search.alpha /\ score >= search.beta) =>
                      /\ researched
                      /\ search'.beta = max_val
                      /\ search'.alpha = search.alpha
                /\ (search'.pc = "loop" /\ search'.depth # search.depth) =>
                      /\ search'.depth = search.depth + 1
                      /\ search'.alpha = score - ASP_WINDOW
                      /\ search'.beta = score + ASP_WINDOW
                      /\ the(search'.accepted).score = score
       /\ (search.pc = "loop" /\ search'.pc = "negamax") =>
            /\ Len(frames') = 1
            /\ frames'[1].depth_remaining = search.depth
            /\ frames'[1].alpha = search.alpha
            /\ frames'[1].beta = search.beta]_vars

\* The second iteration is searched again after its score fell to the lower
\* bound of a window around the score of the first: alpha is at the minimum
\* and beta is still the upper bound of that window
ResearchedAfterFailLow ==
    /\ search.pc = "negamax"
    /\ search.depth > 1
    /\ search.alpha = min_val
    /\ search.beta < max_val
    /\ search.accepted # {}
    /\ search.beta = the(search.accepted).score + ASP_WINDOW
    /\ frames # <<>>

\* C14: for a root position with at least one legal move, a find_best
\* under a limit of time returns a move.
TimedSearchReturnsMove ==
    (search.pc = "returned" /\ ~timer.unlimited /\ legal_moves(board) # {})
        => \E r \in search.result : r.best_move # {}

DrawnNodeReturnsContempt ==
    \A r \in ret :
        (/\ r.frame.negamax_node
         /\ r.via \notin {"tt", "timeout", "limit"}
         /\ is_draw(r.frame.board)) => r.value = contempt

\* C30: when a call has returned to a node that is searching a move,
\* update_line with that move and the line the callee left makes the node's
\* line the move followed by the callee's line, leaves the callee's line
\* empty, and first() of the node's line is the move.
UpdateLinePrependsMove ==
    (frames # <<>> /\ ret # {} /\ Top(frames).mv # {}) =>
        LET f == Top(frames)
            updated == update_line(f.pv_line, the(f.mv), f.next_pv_line)
        IN  /\ ~updated.panic
            /\ updated.moves = <<the(f.mv)>> \o f.next_pv_line
            /\ updated.child_line = <<>>
            /\ first(updated.moves) = f.mv

TakesPiece(mv, b) ==
    /\ mv.kind \in {"Normal", "PawnPromotion"}
    /\ \/ piece_on(b, mv.to) # None
       \/ piece_on(b, mv.from) = Pawn /\ mv.to \in ep_square(b)

\* C24: order_moves returns the moves it was given, each once, by priority
\* from the highest; the move of the table has the highest priority, every
\* other capture has a priority above the killers' and below the table
\* move's, and every other move has at most the priority of a killer.
MovesOrderedInBands ==
    \A o \in rated_moves :
        /\ {rm.mv : rm \in {o.moves[i] : i \in 1 .. Len(o.moves)}}
              = pseudolegal_moves(o.board)
        /\ Len(o.moves) = Cardinality(pseudolegal_moves(o.board))
        /\ \A i \in 1 .. (Len(o.moves) - 1) : o.moves[i].score <= o.moves[i + 1].score
        /\ \A i \in 1 .. Len(o.moves) :
              IF o.tt_move = {o.moves[i].mv}
              THEN -o.moves[i].score = TT_MOVE
              ELSE IF TakesPiece(o.moves[i].mv, o.board)
              THEN -o.moves[i].score > PRIMARY_KILLER /\ -o.moves[i].score < TT_MOVE
              ELSE -o.moves[i].score <= PRIMARY_KILLER

-----------------------------------------------------------------------------
(* Properties of the FEN text: SpecFen *)

\* The fields of a board that a FEN carries
FenFields(b) ==
    [piece_on_square |-> b.piece_on_square,
     white_pieces |-> b.white_pieces,
     black_pieces |-> b.black_pieces,
     all_whites |-> b.all_whites,
     all_blacks |-> b.all_blacks,
     turn |-> b.turn,
     castling_rights |-> b.state.castling_rights,
     en_passant_target |-> b.state.en_passant_target,
     fifty_move_rule_counter |-> b.state.fifty_move_rule_counter,
     full_turns |-> b.full_turns]

\* C21: a FEN text that was read, or written for a board reached by moves,
\* is read into a board whose FEN is the same text and whose placement,
\* side to move, castling rights, en passant target, half-move clock and
\* full-move number are those of the board it stands for
FenRoundTrip ==
    \A w \in fen_string :
        /\ w.parsed # {}
        /\ \A b \in w.parsed : /\ create_fen(b) = w.text
                               /\ FenFields(b) = FenFields(w.board)

\* The FEN of a board reached by a double push has been written
FenWrittenAfterDoublePush ==
    \E w \in fen_string :
        /\ line # <<>>
        /\ w.board = board
        /\ ep_square(board) # {}
        /\ op = "make_move"

\* C29: the plies of a board are never fewer than its fifty-move counter
PliesCoverFiftyMoveCounter ==
    board.plies >= board.state.fifty_move_rule_counter

-----------------------------------------------------------------------------
(* Castling rights and the home squares: Spec *)

HomeRank(color) == IF color = White THEN 0 ELSE 7

\* A right that is set has the king on the e-file and the rook on its
\* corner of the home rank
RightsAtHome(b) ==
    \A color \in {White, Black} :
        LET rights == castling_info(b)
            pieces == get_pieces(b, color)
        IN  /\ can_castle_kingside(rights, color)
                => /\ from_file_rank(4, HomeRank(color)) \in pieces.king
                   /\ from_file_rank(7, HomeRank(color)) \in pieces.rooks
            /\ can_castle_queenside(rights, color)
                => /\ from_file_rank(4, HomeRank(color)) \in pieces.king
                   /\ from_file_rank(0, HomeRank(color)) \in pieces.rooks

\* C27: on every board reached by make, unmake and null moves a castling
\* right that is set has the king and the rook of that side on their home
\* squares, and no move made sets a right that was cleared
CastlingRightsImplyHome ==
    /\ []RightsAtHome(board)
    /\ [][op' \in {"make_move", "make_null_move"}
            => \A k \in 0 .. 3 : Bit(castling_info(board'), k) <= Bit(castling_info(board), k)]_vars

\* A rook has been captured on its corner while its side still had the right
RookCapturedOnCorner ==
    /\ op = "make_move"
    /\ saved # <<>>
    /\ \E k \in 0 .. 3 : Bit(castling_info(board), k) < Bit(castling_info(Top(saved)), k)
    /\ Top(board.previous_moves).captured_piece = Rook
    /\ castling_info(board) # 0

\* C26: no score computed by find_best, negamax or quiesence_search leaves
\* the range of an i16
ScoresStayInRange == ~overflowed

\* C28: find_best searches each depth at most three times, with the initial
\* window, with alpha widened and with beta widened, before the depth
\* advances, whatever the root position, one without a legal move included
DepthSearchedAtMostThrice == search.searches <= 3

\* The behaviours of SpecSearchLive: a search without a limit of time and
\* with a finite max_depth comes to its end, by returning or by panicking
UnlimitedSearchTerminates ==
    timer.unlimited => <>SearchEnded

-----------------------------------------------------------------------------
(* Properties of the null move: SpecNull *)

\* The step in which the call at the top plays a null move and calls
\* negamax for it
NullMovePlayed ==
    /\ frames # <<>>
    /\ Len(frames') = Len(frames) + 1
    /\ frames'[Len(frames)].pc = "null_called"

\* A knight, a bishop, a rook or a queen of either colour is on the board
PiecesBeyondPawns(b) ==
    \E sq \in b.all_pieces : piece_on(b, sq) \in {Knight, Bishop, Rook, Queen}

\* C25: a null move is played only by a call that has can_null, whose side
\* to move is not in check, whose window has a width of one, on a board with
\* pieces beyond pawns and kings and with a depth of NULL_MOVE_REDUCTION + 1
\* at least; the call made for it has that depth less, no can_null, and so
\* plays no null move itself
NullMoveGuarded ==
    [][NullMovePlayed =>
          LET called == Top(frames)
              parent == frames'[Len(frames)]
              child == Top(frames')
          IN  /\ called.can_null
              /\ ~KingAttacked(called.board, called.board.turn)
              /\ ~parent.is_pv
              /\ parent.beta - parent.alpha = 1
              /\ PiecesBeyondPawns(called.board)
              /\ called.depth_remaining - NULL_MOVE_REDUCTION - 1 >= 0
              /\ child.depth_remaining
                    = called.depth_remaining - NULL_MOVE_REDUCTION - 1
              /\ child.current_depth = called.current_depth + 1
              /\ child.board = make_null_move(called.board)
              /\ child.board.turn # called.board.turn
              /\ ~child.can_null
              /\ Len(frames) >= 2 => frames[Len(frames) - 1].pc # "null_called"]_vars

\* The call made for a null move has been entered and has gone on to its
\* own moves
NullMoveSearched ==
    /\ Len(frames) = 2
    /\ frames[1].pc = "null_called"
    /\ frames[2].pc = "moves"

====
